---- MODULE Spec2Model ----
(***************************************************************************)
(* A2D finite-element assembly: the element-vector views of a global DOF   *)
(* array (feelementvector.h) and the assembly loops of FiniteElement       *)
(* (feelement.h).  Numbers are integers, so every sum is exact.            *)
(***************************************************************************)
EXTENDS Integers, Sequences, FiniteSets, TLC

\* ------------------------------------------------------------------ bounds
NumElements == 2
MaxVal == 2
MaxOps == 2
NumPairs == 3

\* --------------------------------------------- template instantiation
\* Basis = FEBasis<T, (a signed two-dof space), (a one-dof cell space)>
nbasis == 2
\* Quadrature: two points
num_quadrature_points == 2

Elems == 0..(NumElements - 1)
NumVerts == NumElements + 1

\* Basis::get_ndof<b>(): dofs of basis group b; an index that names no group
\* (the unsigned wrap of 0 - 1 included) has none.
get_ndof(b) == IF b = 0 THEN 2 ELSE IF b \in 1..(nbasis - 1) THEN 1 ELSE 0

\* Basis::get_dof_offset<b>(): dofs of the groups before b.
RECURSIVE get_dof_offset(_)
get_dof_offset(b) == IF b <= 0 THEN 0 ELSE get_dof_offset(b - 1) + get_ndof(b - 1)

\* Basis::ndof
ndof == get_dof_offset(nbasis)

LocalDofs == 0..(ndof - 1)
Groups == 0..(nbasis - 1)

\* ElementMesh<Basis>::get_num_dof()
num_dof == NumVerts + (nbasis - 1) * NumElements
GlobalDofs == 0..(num_dof - 1)

\* A mesh: group 0 of element e sits on the entities e and e+1 of a ring of
\* nverts entities (nverts = NumVerts is an open chain, fewer close the ring,
\* 1 puts both local dofs of an element on one global dof); flip gives the
\* orientation sign of each local dof of group 0.
Meshes == [nverts : 1..NumVerts, flip : [0..1 -> [0..1 -> {1, -1}]]]

\* ElementMesh<Basis>::get_global_dof<basis>(elem, i)
get_global_dof(m, elem, basis, i) ==
  IF basis = 0 THEN (elem + i) % m.nverts
  ELSE NumVerts + (basis - 1) * NumElements + elem

\* ElementMesh<Basis>::get_global_dof_sign<basis>(elem, i)
get_global_dof_sign(m, elem, basis, i) ==
  IF basis = 0 THEN m.flip[elem % 2][i] ELSE 1

\* The basis group and the index in it of local dof d.
GroupOf(d) == CHOOSE b \in Groups : get_dof_offset(b) <= d /\ d < get_dof_offset(b) + get_ndof(b)
IndexIn(d) == d - get_dof_offset(GroupOf(d))
GlobalOf(m, elem, d) == get_global_dof(m, elem, GroupOf(d), IndexIn(d))
SignOf(m, elem, d) == get_global_dof_sign(m, elem, GroupOf(d), IndexIn(d))

\* Sum of f over the finite set S.
RECURSIVE SumOver(_, _)
SumOver(S, f) ==
  IF S = {} THEN 0
  ELSE LET x == CHOOSE y \in S : TRUE IN f[x] + SumOver(S \ {x}, f)

Ramp(n, a, b) == [k \in 0..(n - 1) |-> a + b * k]
Zero(n) == [k \in 0..(n - 1) |-> 0]

\* ------------------------------------------------ ElementVector_Serial
\* FEDof::FEDof: std::fill(dof, dof + Basis::ndof, T(0.0))
FEDof_nofill == Ramp(ndof, 1, 0)
FEDof_new == Zero(ndof)

\* The three branches of operate_element_values_ on st = [vec |-> the global
\* array, dof |-> the FEDof], for local entry k, global index dof_index.
\* GET: dof[k] = sign * vec[dof_index]
op_GET_writes(st, k, dof_index, sign) ==
  [st EXCEPT !.dof[k] = sign * st.vec[dof_index], !.vec[dof_index] = 0]
op_GET(st, k, dof_index, sign) == [st EXCEPT !.dof[k] = sign * st.vec[dof_index]]

\* ADD: vec[dof_index] += sign * dof[k]
op_ADD_nosign(st, k, dof_index, sign) == [st EXCEPT !.vec[dof_index] = @ + st.dof[k]]
op_ADD_assigns(st, k, dof_index, sign) == [st EXCEPT !.vec[dof_index] = sign * st.dof[k]]
op_ADD(st, k, dof_index, sign) == [st EXCEPT !.vec[dof_index] = @ + sign * st.dof[k]]

\* SET: vec[dof_index] = sign * dof[k]
op_SET_adds(st, k, dof_index, sign) == [st EXCEPT !.vec[dof_index] = @ + sign * st.dof[k]]
op_SET(st, k, dof_index, sign) == [st EXCEPT !.vec[dof_index] = sign * st.dof[k]]

\* The for loop of operate_element_values_<op, basis>, from index i on;
\* st = [vec |-> the global array, dof |-> the FEDof].
RECURSIVE operate_loop_(_, _, _, _, _, _)
operate_loop_(op, m, elem, basis, i, st) ==
  IF i >= get_ndof(basis) THEN st
  ELSE LET sign == get_global_dof_sign(m, elem, basis, i)
           dof_index == get_global_dof(m, elem, basis, i)
           k == i + get_dof_offset(basis)
           nxt == CASE op = "GET" -> op_GET(st, k, dof_index, sign)
                    [] op = "ADD" -> op_ADD(st, k, dof_index, sign)
                    [] op = "SET" -> op_SET(st, k, dof_index, sign)
       IN operate_loop_(op, m, elem, basis, i + 1, nxt)

\* Whether operate_element_values_<op, basis> goes on to the group after basis.
next_group(basis) == basis + 1 < nbasis

RECURSIVE operate_element_values_(_, _, _, _, _)
operate_element_values_(op, m, elem, basis, st) ==
  LET after == operate_loop_(op, m, elem, basis, 0, st)
  IN IF next_group(basis)
     THEN operate_element_values_(op, m, elem, basis + 1, after)
     ELSE after

\* get_element_values(elem, dof): the global array and the FEDof afterwards.
Serial_get_element_values(m, elem, vec, dof) ==
  IF nbasis > 0
  THEN operate_element_values_("GET", m, elem, 0, [vec |-> vec, dof |-> dof])
  ELSE [vec |-> vec, dof |-> dof]

\* add_element_values(elem, dof): the global array and the FEDof afterwards.
Serial_add_element_values(m, elem, vec, dof) ==
  IF nbasis > 0
  THEN operate_element_values_("ADD", m, elem, 0, [vec |-> vec, dof |-> dof])
  ELSE [vec |-> vec, dof |-> dof]

\* set_element_values(elem, dof): the global array and the FEDof afterwards.
Serial_set_element_values(m, elem, vec, dof) ==
  IF nbasis > 0
  THEN operate_element_values_("SET", m, elem, 0, [vec |-> vec, dof |-> dof])
  ELSE [vec |-> vec, dof |-> dof]

\* ------------------------------------------ ElementVector_InPlaceSerial
\* The for loop of get_element_values_<basis> / add_element_values_<basis>
\* of the in-place vector, from index i on; FEDof::get<basis>() points at
\* dof[get_dof_offset<basis>()].
RECURSIVE InPlace_loop_(_, _, _, _, _, _)
InPlace_loop_(op, m, elem, basis, i, st) ==
  IF i >= get_ndof(basis) THEN st
  ELSE LET sign == get_global_dof_sign(m, elem, basis, i)
           dof_index == get_global_dof(m, elem, basis, i)
           k == get_dof_offset(basis) + i
           nxt == IF op = "GET"
                  THEN [st EXCEPT !.dof[k] = sign * st.vec[dof_index]]
                  ELSE [st EXCEPT !.vec[dof_index] = @ + sign * st.dof[k]]
       IN InPlace_loop_(op, m, elem, basis, i + 1, nxt)

\* get_element_values_<basis> / add_element_values_<basis>: group basis, then
\* the groups below it down to the specialisation for group 0.
RECURSIVE InPlace_element_values_(_, _, _, _, _)
InPlace_element_values_(op, m, elem, basis, st) ==
  LET after == InPlace_loop_(op, m, elem, basis, 0, st)
  IN IF basis > 0
     THEN InPlace_element_values_(op, m, elem, basis - 1, after)
     ELSE after

\* ElementVector_InPlaceSerial::get_element_values(elem, dof)
InPlace_get_element_values(m, elem, vec, dof) ==
  InPlace_element_values_("GET", m, elem, nbasis - 1, [vec |-> vec, dof |-> dof])

\* ElementVector_InPlaceSerial::add_element_values(elem, dof)
InPlace_add_element_values(m, elem, vec, dof) ==
  InPlace_element_values_("ADD", m, elem, nbasis - 1, [vec |-> vec, dof |-> dof])

\* ---------------------------------------------- ElementVector_Parallel
\* The basis groups _get_element_values<n> / _add_element_values<n> visit:
\* group n - 1, then, if n > 1, the groups of the instantiation for n - 2.
RECURSIVE Parallel_groups(_)
Parallel_groups(n) ==
  <<n - 1>> \o (IF n > 1 THEN Parallel_groups(n - 2) ELSE <<>>)

\* The (group, index) pairs one call of _get_element_values<nbasis> or
\* _add_element_values<nbasis> goes through, in order.
RECURSIVE Parallel_entries_(_, _)
Parallel_entries_(gs, i) ==
  IF gs = <<>> THEN <<>>
  ELSE IF i >= get_ndof(Head(gs)) THEN Parallel_entries_(Tail(gs), 0)
  ELSE <<[basis |-> Head(gs), i |-> i]>> \o Parallel_entries_(gs, i + 1)

Parallel_entries == Parallel_entries_(Parallel_groups(nbasis), 0)

\* elem_vec_array(elem_idx, dof_idx) = sign * vec[dof_index], for the entries
\* from position k on: the slab row of elem_idx afterwards.
RECURSIVE Parallel_get_element_values_(_, _, _, _, _)
Parallel_get_element_values_(m, elem_idx, vec, row, k) ==
  IF k > Len(Parallel_entries) THEN row
  ELSE LET en == Parallel_entries[k]
           sign == get_global_dof_sign(m, elem_idx, en.basis, en.i)
           dof_index == get_global_dof(m, elem_idx, en.basis, en.i)
           dof_idx == en.i + get_dof_offset(en.basis)
       IN Parallel_get_element_values_(m, elem_idx, vec,
            [row EXCEPT ![dof_idx] = sign * vec[dof_index]], k + 1)

\* init_values(): every row of the slab filled from the global array.
Parallel_init_values(m, vec, array) ==
  [elem \in Elems |-> Parallel_get_element_values_(m, elem, vec, array[elem], 1)]

\* init_zero_values(): BLAS::zero(elem_vec_array)
Parallel_init_zero_values_keeps(array) == array
Parallel_init_zero_values(array) == [elem \in Elems |-> Zero(ndof)]

\* Kokkos::atomic_add(&vec[dof_index], sign * elem_vec_array(elem_idx, dof_idx))
\* for entry k of element elem_idx: one indivisible read-modify-write.
Parallel_atomic_add(m, elem_idx, vec, array, k) ==
  LET en == Parallel_entries[k]
      sign == get_global_dof_sign(m, elem_idx, en.basis, en.i)
      dof_index == get_global_dof(m, elem_idx, en.basis, en.i)
      dof_idx == en.i + get_dof_offset(en.basis)
  IN [vec EXCEPT ![dof_index] = @ + sign * array[elem_idx][dof_idx]]

\* ------------------------------------------- the two strategies of ElemVec
\* typename ElemVec::FEDof dof(i, elem_vec): a zeroed private copy (Serial)
\* or row i of the slab (Parallel).
ElemVec_FEDof(ev, array, elem) ==
  IF ev = "Serial" THEN FEDof_new ELSE array[elem]

\* elem_vec.get_element_values(i, dof): Parallel does nothing.
ElemVec_get_element_values(ev, m, elem, vec, dof) ==
  IF ev = "Serial" THEN Serial_get_element_values(m, elem, vec, dof)
  ELSE [vec |-> vec, dof |-> dof]

\* elem_vec.add_element_values(i, dof): Parallel does nothing.
ElemVec_add_element_values_scatters(ev, m, elem, vec, dof) ==
  Serial_add_element_values(m, elem, vec, dof)
ElemVec_add_element_values(ev, m, elem, vec, dof) ==
  IF ev = "Serial" THEN Serial_add_element_values(m, elem, vec, dof)
  ELSE [vec |-> vec, dof |-> dof]

\* A write through a Parallel FEDof lands in row elem of the slab; a Serial
\* FEDof is a private copy and the slab (unused) stays as it is.
ElemVec_store_shared(ev, array, elem, dof) ==
  IF ev = "Serial" THEN array ELSE [array EXCEPT ![0] = dof]
ElemVec_store(ev, array, elem, dof) ==
  IF ev = "Serial" THEN array ELSE [array EXCEPT ![elem] = dof]

\* ------------------------------------- basis, spaces, quadrature, PDE
\* PDE::FiniteElementSpace::ncomp: one component per basis group.
ncomp == nbasis
Comps == 0..(ncomp - 1)
QPoints == 0..(num_quadrature_points - 1)

\* Quadrature::get_weight(j): the two points carry the weights 1 and 2.
get_weight(j) == j + 1

\* Shape function i of basis group b at quadrature point j: group 0 is
\* collocated at the two points, the cell group is constant.
ShapeN(b, j, i) == IF b = 0 THEN (IF i = j THEN 1 ELSE 0) ELSE 1

\* Basis::interp(dof, q): q(j)[c] = sum_i N(c,j,i) * dof[offset(c) + i]
Basis_interp(dof) ==
  [j \in QPoints |-> [c \in Comps |->
     SumOver(0..(get_ndof(c) - 1),
             [i \in 0..(get_ndof(c) - 1) |-> ShapeN(c, j, i) * dof[get_dof_offset(c) + i]])]]

\* Basis::add(q, dof): dof[offset(c) + i] += sum_j N(c,j,i) * q(j)[c]
Basis_add(qs, dof) ==
  [d \in LocalDofs |->
     dof[d] + SumOver(QPoints, [j \in QPoints |-> ShapeN(GroupOf(d), j, IndexIn(d)) * qs[j][GroupOf(d)]])]

\* The geometry: two end points (group 0) and a mid-side bubble (group 1) per
\* element on an open chain, all signs +1.
geomesh == [nverts |-> NumVerts, flip |-> [a \in 0..1 |-> [b \in 0..1 |-> 1]]]

\* GeoBasis::interp at point j, the gradient of the position:
\* X1 - X0 + B * (1 - 2 xi), xi = 0 at point 0 and 1 at point 1.
Geo_grad(geo_dof, j) == geo_dof[1] - geo_dof[0] + geo_dof[2] * (1 - 2 * j)

GeoBasis_interp(geo_dof) == [j \in QPoints |-> [grad |-> Geo_grad(geo_dof, j)]]

\* A2D::MatDet of the 1 x 1 matrix J
MatDet(J) == J

\* A2D::MatInverse of the 1 x 1 matrix J: the fraction 1 / J with a
\* non-negative denominator; 1 / 0 for a singular J.
MatInverse(J) == [num |-> IF J < 0 THEN -1 ELSE 1, den |-> IF J < 0 THEN -J ELSE J]

\* The quotient a / b for b > 0, rounded down; 0 stands for the value that is
\* not finite when b = 0.
Quot(a, b) == IF b = 0 THEN 0 ELSE a \div b

\* FiniteElementSpace::transform(detJ, J, Jinv, s): component 0 is pushed
\* forward with J, the cell component is scaled with detJ * Jinv, which is 1
\* when detJ and Jinv are those of one J.
transform(detJ, J, Jinv, sref) ==
  [c \in Comps |-> IF c = 0 THEN J * sref[c]
                   ELSE Jinv.num * Quot(detJ * sref[c], Jinv.den)]

\* FiniteElementSpace::rtransform(detJ, J, Jinv, cref): the adjoint of transform.
rtransform(detJ, J, Jinv, coef) ==
  [c \in Comps |-> IF c = 0 THEN J * coef[c]
                   ELSE Jinv.num * Quot(detJ * coef[c], Jinv.den)]

\* pde.weak(wdetJ, data, geo, s, coef): a linear form, a linear form that
\* couples the components (a mixed problem), and a nonlinear one.
PDEKinds == {"identity", "mixed", "quadratic"}
weak(pde, wdetJ, data, geo, s) ==
  [c \in Comps |-> IF pde = "identity" THEN wdetJ * s[c]
                   ELSE IF pde = "mixed" THEN wdetJ * (s[0] + s[ncomp - 1])
                   ELSE wdetJ * (s[c] * s[c] + data[c])]

\* PDE::JacVecProduct jvp(pde, wdetJ, data, geo, s); jvp(x, y)
JacVecProduct(pde, wdetJ, data, geo, s, x) ==
  [c \in Comps |-> IF pde = "identity" THEN wdetJ * x[c]
                   ELSE IF pde = "mixed" THEN wdetJ * (x[0] + x[ncomp - 1])
                   ELSE wdetJ * 2 * s[c] * x[c]]

ZeroQ == [j \in QPoints |-> [c \in Comps |-> 0]]

\* --------------------------------------------------------------- state
VARIABLES
  mesh,        \* the connectivity of ElementMesh<Basis>
  global_U,    \* SolutionVector global_U, viewed by elem_sol
  sol_dof,     \* an ElemVec::FEDof of elem_sol
  last,        \* the last element-vector call: its kind, element, the state before it, and the call before it
  nops,        \* calls made so far
  pairs,       \* (element, FEDof) pairs waiting to be scatter-added
  pending,     \* the indices of the pairs not added yet
  evtype,      \* the strategy of ElemVec: "Serial" or "Parallel"
  op,          \* the assembly routine of this run
  pde,         \* the weak form plugged in
  order,       \* order[i]: the mesh element the loop index i stands for
  global_res,  \* SolutionVector global_res, viewed by elem_res
  global_geo,  \* SolutionVector global_geo, viewed by elem_geo
  global_data, \* SolutionVector global_data, viewed by elem_data
  global_x,    \* SolutionVector global_x, viewed by elem_x
  global_y,    \* SolutionVector global_y, viewed by elem_y
  mat,         \* the global matrix behind elem_mat
  slab,        \* elem_vec_array of elem_sol, elem_res, elem_x, elem_y (Parallel)
  pc,          \* where the driver or the running assembly loop stands
  ei,          \* the element loop index i
  qj,          \* the quadrature loop index j
  q,           \* the QptSpace objects of the current element
  element_mat, \* the FEMat of the current element
  merge_pc,    \* add_values: the next entry of each element's merge
  init0,       \* the global arrays when the run started
  test,        \* the locals of TestPDEImplementation
  log          \* add_residual: the pde.weak calls and the scatter-adds made so far

vecVars == <<mesh, global_U, sol_dof, last, nops>>
scatterVars == <<pairs, pending>>
globalVars == <<global_res, global_geo, global_data, global_x, global_y, mat>>
runVars == <<evtype, op, pde, order, init0>>
loopVars == <<slab, pc, ei, qj, q, element_mat, merge_pc>>
testVars == <<test>>
logVars == <<log>>
asmVars == <<globalVars, runVars, loopVars, testVars, logVars>>
vars == <<vecVars, scatterVars, asmVars>>

\* FEMat::FEMat: A(size, T(0.0))
FEMat_new == [i \in LocalDofs |-> [j \in LocalDofs |-> 0]]

ZeroSlab == [elem \in Elems |-> Zero(ndof)]
ZeroMat == [r \in GlobalDofs |-> [c \in GlobalDofs |-> 0]]
Identity == [i \in Elems |-> i]

\* TestPDEImplementation not called.
TestIdle == [pc |-> "idle"]

\* The assembly state of a program that runs no assembly.
AsmIdle ==
  /\ evtype = "Serial" /\ op = "none" /\ pde = "identity" /\ order = Identity
  /\ global_res = Zero(num_dof) /\ global_geo = Zero(num_dof)
  /\ global_data = Zero(num_dof) /\ global_x = Zero(num_dof)
  /\ global_y = Zero(num_dof) /\ mat = ZeroMat
  /\ slab = [sol |-> ZeroSlab, res |-> ZeroSlab, x |-> ZeroSlab, y |-> ZeroSlab]
  /\ pc = "idle" /\ ei = 0 /\ qj = 0
  /\ q = [data |-> ZeroQ, geo |-> <<>>, sol |-> ZeroQ, xsol |-> ZeroQ, res |-> ZeroQ]
  /\ element_mat = FEMat_new
  /\ merge_pc = [elem \in Elems |-> 1]
  /\ init0 = <<>>
  /\ log = <<>>

\* =============================================== element-vector calls
\* A caller of elem_sol (an ElementVector_Serial), as the end of main does:
\* construct an FEDof, write it, get, add or set the values of an element.
\* The calls start on a fresh FEDof or on one the caller has filled.
InitVec ==
  /\ mesh \in Meshes
  /\ global_U \in {Zero(num_dof), Ramp(num_dof, 1, 0), Ramp(num_dof, 1, 1)}
  /\ sol_dof \in {FEDof_new, Ramp(ndof, 1, 1)}
  /\ last = [op |-> "none", elem |-> 0, vec |-> global_U, dof |-> sol_dof,
             prev |-> [op |-> "none", elem |-> 0, vec |-> global_U, dof |-> sol_dof]]
  /\ nops = 0
  /\ pairs = <<>>
  /\ pending = {}
  /\ AsmIdle
  /\ test = TestIdle

\* The global array and the FEDof before a call, and the call before it.
Before ==
  [vec |-> global_U, dof |-> sol_dof,
   prev |-> [op |-> last.op, elem |-> last.elem, vec |-> last.vec, dof |-> last.dof]]

\* The two element vectors of feelementvector.h that a caller may hold.
VecImpls == {"Serial", "InPlaceSerial"}

\* typename ElemVec::FEDof sol_dof(elem, elem_sol)
NewFEDof ==
  /\ nops < MaxOps
  /\ sol_dof' = FEDof_new
  /\ last' = [op |-> "new", elem |-> 0] @@ Before
  /\ nops' = nops + 1
  /\ UNCHANGED <<mesh, global_U, scatterVars, asmVars>>

\* sol_dof[k] = ... for every k, through FEDof::operator[]
WriteFEDof ==
  /\ nops < MaxOps
  /\ \E a \in {-MaxVal, 1} : sol_dof' = Ramp(ndof, a, 1)
  /\ last' = [op |-> "write", elem |-> 0] @@ Before
  /\ nops' = nops + 1
  /\ UNCHANGED <<mesh, global_U, scatterVars, asmVars>>

\* elem_sol.get_element_values(elem, sol_dof), elem_sol an
\* ElementVector_Serial or an ElementVector_InPlaceSerial
GetElementValues ==
  /\ nops < MaxOps
  /\ \E elem \in Elems, impl \in VecImpls :
       LET st == IF impl = "Serial"
                 THEN Serial_get_element_values(mesh, elem, global_U, sol_dof)
                 ELSE InPlace_get_element_values(mesh, elem, global_U, sol_dof)
       IN /\ sol_dof' = st.dof
          /\ global_U' = st.vec
          /\ last' = [op |-> "get", elem |-> elem] @@ Before
  /\ nops' = nops + 1
  /\ UNCHANGED <<mesh, scatterVars, asmVars>>

\* elem_sol.add_element_values(elem, sol_dof), elem_sol an
\* ElementVector_Serial or an ElementVector_InPlaceSerial
AddElementValues ==
  /\ nops < MaxOps
  /\ \E elem \in Elems, impl \in VecImpls :
       LET st == IF impl = "Serial"
                 THEN Serial_add_element_values(mesh, elem, global_U, sol_dof)
                 ELSE InPlace_add_element_values(mesh, elem, global_U, sol_dof)
       IN /\ sol_dof' = st.dof
          /\ global_U' = st.vec
          /\ last' = [op |-> "add", elem |-> elem] @@ Before
  /\ nops' = nops + 1
  /\ UNCHANGED <<mesh, scatterVars, asmVars>>

\* elem_sol.set_element_values(elem, sol_dof)
SetElementValues ==
  /\ nops < MaxOps
  /\ \E elem \in Elems :
       LET st == Serial_set_element_values(mesh, elem, global_U, sol_dof)
       IN /\ sol_dof' = st.dof
          /\ global_U' = st.vec
          /\ last' = [op |-> "set", elem |-> elem] @@ Before
  /\ nops' = nops + 1
  /\ UNCHANGED <<mesh, scatterVars, asmVars>>

NextVec ==
  \/ NewFEDof
  \/ WriteFEDof
  \/ GetElementValues
  \/ AddElementValues
  \/ SetElementValues

SpecVec == InitVec /\ [][NextVec]_vars

\* Local dofs of element elem that sit on global dof g.
DofsOn(m, elem, g) == {d \in LocalDofs : GlobalOf(m, elem, d) = g}

\* C1: add_element_values(elem, dof) leaves in every global slot g its value
\* before the call plus the sum of sign(elem,d) * dof[d] over every local dof d
\* of every basis group that maps to g (all of them when several do), and so
\* leaves a slot no local dof maps to as it was.
C1_AddScatters ==
  last.op = "add" =>
    /\ \A g \in GlobalDofs :
         global_U[g] = last.vec[g]
           + SumOver(DofsOn(mesh, last.elem, g),
                     [d \in LocalDofs |-> SignOf(mesh, last.elem, d) * last.dof[d]])

\* An add with a negative sign on a dof whose value is not zero, and with two
\* local dofs of the element on one global dof.
C1_Witness ==
  /\ last.op = "add"
  /\ \E d \in LocalDofs : SignOf(mesh, last.elem, d) = -1 /\ last.dof[d] # 0
  /\ \E g \in GlobalDofs : Cardinality(DofsOn(mesh, last.elem, g)) = 2
  /\ \E g \in GlobalDofs : last.vec[g] # 0

\* C2: get_element_values(elem, dof) writes every one of the Basis::ndof local
\* entries, dof[offset(b)+i] = sign(elem,b,i) * global[global_dof(elem,b,i)]
\* for every basis group b and every i < ndof(b), and leaves the global array
\* unchanged.
C2_GetGathers ==
  last.op = "get" =>
    /\ global_U = last.vec
    /\ \A b \in Groups : \A i \in 0..(get_ndof(b) - 1) :
         sol_dof[get_dof_offset(b) + i] =
           get_global_dof_sign(mesh, last.elem, b, i)
             * last.vec[get_global_dof(mesh, last.elem, b, i)]

\* A get over a buffer that held other values, with a negative sign on a
\* non-zero global value and a non-zero value in the last basis group.
C2_Witness ==
  /\ last.op = "get"
  /\ \E d \in LocalDofs : last.dof[d] # sol_dof[d]
  /\ \E d \in LocalDofs : SignOf(mesh, last.elem, d) = -1 /\ sol_dof[d] # 0
  /\ sol_dof[ndof - 1] # 0 /\ last.dof[ndof - 1] # sol_dof[ndof - 1]

\* ========================================== scatter-adds in any order
\* A fixed set of (element, FEDof) pairs, each added once to global_U by
\* ElementVector_Serial::add_element_values, in an order the caller picks.
PairIds == 1..NumPairs

InitScatter ==
  /\ mesh \in Meshes
  /\ global_U \in {Ramp(num_dof, a, 1) : a \in {0, 1}}
  /\ sol_dof = FEDof_new
  /\ last = [op |-> "none", elem |-> 0, vec |-> global_U, dof |-> sol_dof]
  /\ nops = 0
  /\ pairs \in {[k \in PairIds |-> [elem |-> el[k], dof |-> Ramp(ndof, k, k)]] :
                   el \in [PairIds -> Elems]}
  /\ pending = PairIds
  /\ AsmIdle
  /\ test = TestIdle

\* elem_vec.add_element_values(pairs[k].elem, pairs[k].dof)
ScatterPair ==
  \E k \in pending :
    /\ LET st == Serial_add_element_values(mesh, pairs[k].elem, global_U, pairs[k].dof)
       IN /\ global_U' = st.vec
          /\ pairs' = [pairs EXCEPT ![k].dof = st.dof]
    /\ pending' = pending \ {k}
    /\ UNCHANGED <<mesh, sol_dof, last, nops, asmVars>>

NextScatter == ScatterPair

SpecScatter == InitScatter /\ [][NextScatter]_vars

\* What the pairs in K add to global slot g, whatever their order.
PairSum(K, g) ==
  SumOver(K, [k \in PairIds |->
    SumOver(DofsOn(mesh, pairs[k].elem, g),
            [d \in LocalDofs |-> SignOf(mesh, pairs[k].elem, d) * pairs[k].dof[d]])])

\* C6: whatever the order in which the pairs are added, the global array
\* holds its initial value plus the signed contributions of the pairs added
\* so far; once all are added it is the one array fixed by the set of pairs.
C6_OrderIndependent ==
  \A g \in GlobalDofs : global_U[g] = last.vec[g] + PairSum(PairIds \ pending, g)

\* All pairs added, two of them of different elements meeting on one global
\* dof with opposite signs.
C6_Witness ==
  /\ pending = {} /\ pairs # <<>>
  /\ \E j, k \in PairIds : \E dj, dk \in LocalDofs :
       /\ pairs[j].elem # pairs[k].elem
       /\ GlobalOf(mesh, pairs[j].elem, dj) = GlobalOf(mesh, pairs[k].elem, dk)
       /\ SignOf(mesh, pairs[j].elem, dj) = 1
       /\ SignOf(mesh, pairs[k].elem, dk) = -1

\* ===================================================== the assembly run
\* main: elem_sol.init_values(); elem_x.init_values();
\* elem_out.init_zero_values(); fe.add_...(...); elem_out.add_values();
\* elem_data and elem_geo are ElementVector_Serial views in every run.
datamesh == geomesh

Ops == {"residual", "jvp", "jacobian"}

\* Well-formed geometries: end points k apart and a bubble b, 0 <= b < k, so
\* that the gradient k + b, k - b is positive at both quadrature points.
GeoInits ==
  {[g \in GlobalDofs |-> IF g < NumVerts THEN kb[1] * g ELSE kb[2]] :
     kb \in {<<1, 0>>, <<2, 0>>, <<2, 1>>}}

StaleSlab == [elem \in Elems |-> Ramp(ndof, 1 + elem, 1)]

\* The meshes of the assembly runs: the first sign of even elements is +1.
RunMeshes == {m \in Meshes : m.flip[0][0] = 1}

InitRunOn(orders, evtypes, geos) ==
  /\ mesh \in RunMeshes
  /\ global_U \in {Ramp(num_dof, 1, 0), Ramp(num_dof, 1, 1)}
  /\ sol_dof = FEDof_new
  /\ last = [op |-> "none", elem |-> 0, vec |-> global_U, dof |-> sol_dof]
  /\ nops = 0
  /\ pairs = <<>>
  /\ pending = {}
  /\ evtype \in evtypes
  /\ op \in Ops
  /\ pde \in PDEKinds
  /\ order \in orders
  /\ global_res \in {Zero(num_dof), Ramp(num_dof, 1, 1)}
  /\ global_y = global_res
  /\ global_geo \in geos
  /\ global_data = Ramp(num_dof, 0, 1)
  /\ global_x = Ramp(num_dof, -1, 1)
  /\ mat = ZeroMat
  /\ slab \in IF evtype = "Serial"
              THEN {[sol |-> ZeroSlab, res |-> ZeroSlab, x |-> ZeroSlab, y |-> ZeroSlab]}
              ELSE {[sol |-> s, res |-> s, x |-> s, y |-> s] : s \in {ZeroSlab, StaleSlab}}
  /\ pc = "init_sol" /\ ei = 0 /\ qj = 0
  /\ q = [data |-> ZeroQ, geo |-> <<>>, sol |-> ZeroQ, xsol |-> ZeroQ, res |-> ZeroQ]
  /\ element_mat = FEMat_new
  /\ merge_pc = [elem \in Elems |-> 1]
  /\ init0 = [U |-> global_U, res |-> global_res, geo |-> global_geo,
              data |-> global_data, x |-> global_x, y |-> global_y]
  /\ test = TestIdle
  /\ log = <<>>

InitRun(orders, evtypes) == InitRunOn(orders, evtypes, GeoInits)

Init == InitRun({Identity}, {"Serial", "Parallel"})

\* The output view of the run: elem_res for add_residual, elem_y for the product.
OutView == IF op = "jvp" THEN "y" ELSE "res"

\* ElementVectorBase::init_values(): elem_sol, then elem_x; Serial does nothing.
InitValues ==
  /\ pc \in {"init_sol", "init_x"}
  /\ slab' = IF evtype = "Serial" THEN slab
             ELSE IF pc = "init_sol"
             THEN [slab EXCEPT !.sol = Parallel_init_values(mesh, global_U, @)]
             ELSE [slab EXCEPT !.x = Parallel_init_values(mesh, global_x, @)]
  /\ pc' = IF pc = "init_sol" THEN "init_x" ELSE "zero"
  /\ UNCHANGED <<vecVars, scatterVars, globalVars, runVars, testVars, logVars, ei, qj, q, element_mat, merge_pc>>

\* elem_res.init_zero_values() (elem_y for the product); Serial does nothing.
InitZeroValues ==
  /\ pc = "zero"
  /\ slab' = IF evtype = "Serial" THEN slab
             ELSE [slab EXCEPT ![OutView] = Parallel_init_zero_values(@)]
  /\ pc' = "call"
  /\ UNCHANGED <<vecVars, scatterVars, globalVars, runVars, testVars, logVars, ei, qj, q, element_mat, merge_pc>>

\* The call of fe.add_residual, fe.add_jacobian_vector_product or
\* fe.add_jacobian: num_elements is read and the element loop starts.
CallAssembly ==
  /\ pc = "call"
  /\ ei' = 0
  /\ pc' = IF NumElements > 0 THEN "gather" ELSE "merge"
  /\ UNCHANGED <<vecVars, scatterVars, globalVars, runVars, testVars, logVars, slab, qj, q, element_mat, merge_pc>>

\* The element the loop index ei stands for.
CurElem == order[ei]

\* The three gathers and interpolations at the top of every element loop:
\* data, geometry and solution of element elem.
\* q: the QptSpace objects; data, geo, U: the three global arrays afterwards.
GatherQ(elem) ==
  LET data_st == Serial_get_element_values(datamesh, elem, global_data, FEDof_new)
      geo_st == Serial_get_element_values(geomesh, elem, global_geo, FEDof_new)
      sol_st == ElemVec_get_element_values(evtype, mesh, elem, global_U,
                                           ElemVec_FEDof(evtype, slab.sol, elem))
  IN [q |-> [data |-> Basis_interp(data_st.dof),
             geo |-> GeoBasis_interp(geo_st.dof),
             sol |-> Basis_interp(sol_st.dof),
             xsol |-> ZeroQ,
             res |-> ZeroQ],
      data |-> data_st.vec, geo |-> geo_st.vec, U |-> sol_st.vec]

\* The x-vector of the product: x_dof(i, elem_xvec), get_element_values, interp.
GatherX(elem) ==
  LET x_st == ElemVec_get_element_values(evtype, mesh, elem, global_x,
                                         ElemVec_FEDof(evtype, slab.x, elem))
  IN [xsol |-> Basis_interp(x_st.dof), x |-> x_st.vec]

\* The geometry of quadrature point j in add_residual: J from the geometry
\* gradient, MatInverse(J, Jinv), MatDet(J, detJ), and the weighted
\* determinant handed to the weak form.
ResidualFrame(qs, j) ==
  LET J == qs.geo[j].grad
  IN [J |-> J, Jinv |-> MatInverse(J), detJ |-> MatDet(J),
      wdetJ |-> get_weight(j) * MatDet(J)]

\* The same statements at quadrature point j of add_jacobian_vector_product.
JvpFrame(qs, j) ==
  LET J == qs.geo[j].grad
  IN [J |-> J, Jinv |-> MatInverse(J), detJ |-> MatDet(J),
      wdetJ |-> get_weight(j) * MatDet(J)]

\* The same statements at quadrature point j of add_jacobian.
JacFrame(qs, j) ==
  LET J == qs.geo[j].grad
  IN [J |-> J, Jinv |-> MatInverse(J), detJ |-> MatDet(J),
      wdetJ |-> get_weight(j) * MatDet(J)]

\* One quadrature point of add_residual: the coefficients pulled back to the
\* reference element, res.get(j).
ResidualPoint_weighted(qs, j) ==
  LET f == ResidualFrame(qs, j)
      s == transform(f.wdetJ, f.J, f.Jinv, qs.sol[j])
      coef == weak(pde, f.wdetJ, qs.data[j], qs.geo[j], s)
  IN rtransform(f.wdetJ, f.J, f.Jinv, coef)
ResidualPoint(qs, j) ==
  LET f == ResidualFrame(qs, j)
      s == transform(f.detJ, f.J, f.Jinv, qs.sol[j])
      coef == weak(pde, f.wdetJ, qs.data[j], qs.geo[j], s)
  IN rtransform(f.detJ, f.J, f.Jinv, coef)

\* typename PDE::JacVecProduct jvp(pde, weight * detJ, data.get(j), gref, s)
\* at quadrature point j of add_jacobian_vector_product: what the functor is
\* bound to.
JvpFunctor(qs, j) ==
  LET f == JvpFrame(qs, j)
      s == transform(f.detJ, f.J, f.Jinv, qs.sol[j])
  IN [wdetJ |-> f.wdetJ, data |-> qs.data[j], geo |-> qs.geo[j], s |-> s]

\* The same statement at quadrature point j of add_jacobian.
JacFunctor_noweight(qs, j) ==
  LET f == JacFrame(qs, j)
      s == transform(f.detJ, f.J, f.Jinv, qs.sol[j])
  IN [wdetJ |-> f.detJ, data |-> qs.data[j], geo |-> qs.geo[j], s |-> s]
JacFunctor(qs, j) ==
  LET f == JacFrame(qs, j)
      s == transform(f.detJ, f.J, f.Jinv, qs.sol[j])
  IN [wdetJ |-> f.wdetJ, data |-> qs.data[j], geo |-> qs.geo[j], s |-> s]

\* One quadrature point of add_jacobian_vector_product: ysol.get(j).
JvpPoint(qs, j) ==
  LET f == JvpFrame(qs, j)
      x == transform(f.detJ, f.J, f.Jinv, qs.xsol[j])
      jvp == JvpFunctor(qs, j)
      y == JacVecProduct(pde, jvp.wdetJ, jvp.data, jvp.geo, jvp.s, x)
  IN rtransform(f.detJ, f.J, f.Jinv, y)

\* pref.zero(); pref[k] = T(1.0): the probe of column k, written into the
\* variable pref that still holds the pulled-back result of column k - 1.
Probe_nozero(pref, k) == [pref EXCEPT ![k] = 1]
Probe(pref, k) == [[c \in Comps |-> 0] EXCEPT ![k] = 1]

\* typename PDE::QMatType jac; typename PDE::FiniteElementSpace pref, p, Jp;
\* written: the entries of jac assigned so far; probes: the probe each column
\* was computed from.
JacStart ==
  [pref |-> [c \in Comps |-> 0],
   jac |-> [m \in Comps |-> [k \in Comps |-> 0]],
   written |-> {},
   probes |-> [k \in Comps |-> [c \in Comps |-> 0]]]

\* The loop over k at quadrature point j of add_jacobian, from column k on:
\* probe, transform, jvp, rtransform back into pref, jac(m, k) = pref[m].
RECURSIVE JacColumns(_, _, _, _)
JacColumns(qs, j, k, st) ==
  IF k >= ncomp THEN st
  ELSE LET f == JacFrame(qs, j)
           jvp == JacFunctor(qs, j)
           probe == Probe(st.pref, k)
           p == transform(f.detJ, f.J, f.Jinv, probe)
           Jp == JacVecProduct(pde, jvp.wdetJ, jvp.data, jvp.geo, jvp.s, p)
           pref == rtransform(f.detJ, f.J, f.Jinv, Jp)
       IN JacColumns(qs, j, k + 1,
            [pref |-> pref,
             jac |-> [m \in Comps |-> [kk \in Comps |->
                        IF kk = k THEN pref[m] ELSE st.jac[m][kk]]],
             written |-> st.written \cup {<<m, k>> : m \in Comps},
             probes |-> [st.probes EXCEPT ![k] = probe]])

\* One quadrature point of add_jacobian: jac(m, k), column k from the probe
\* pref = e_k; the functor is bound once, before the loop over k.
JacPoint_noprobe(qs, j) ==
  LET f == JacFrame(qs, j)
      jvp == JacFunctor(qs, j)
      col(k) ==
        LET pref == [c \in Comps |-> IF c = k THEN 1 ELSE 0]
            Jp == JacVecProduct(pde, jvp.wdetJ, jvp.data, jvp.geo, jvp.s, pref)
        IN rtransform(f.detJ, f.J, f.Jinv, Jp)
  IN [m \in Comps |-> [k \in Comps |-> col(k)[m]]]
JacPoint(qs, j) == JacColumns(qs, j, 0, JacStart).jac

\* Basis::add_outer<Quadrature>(j, jac, element_mat)
Basis_add_outer(j, jac, emat) ==
  [a \in LocalDofs |-> [b \in LocalDofs |->
     emat[a][b] + ShapeN(GroupOf(a), j, IndexIn(a)) * jac[GroupOf(a)][GroupOf(b)]
                    * ShapeN(GroupOf(b), j, IndexIn(b))]]

\* ElementMat_Serial::get_dof<basis>(elem, dof, sign): the global indices and
\* the signs of group basis at its offset, then the groups after it.
RECURSIVE ElementMat_get_dof(_, _, _, _)
ElementMat_get_dof(m, elem, basis, st) ==
  LET st1 == [dof |-> [d \in LocalDofs |->
                         IF GroupOf(d) = basis
                         THEN get_global_dof(m, elem, basis, d - get_dof_offset(basis))
                         ELSE st.dof[d]],
              sign |-> [d \in LocalDofs |->
                          IF GroupOf(d) = basis
                          THEN get_global_dof_sign(m, elem, basis, d - get_dof_offset(basis))
                          ELSE st.sign[d]]]
  IN IF basis + 1 < nbasis THEN ElementMat_get_dof(m, elem, basis + 1, st1) ELSE st1

\* What add_element_values hands to mat.add_values: the row and the column
\* index list and the block elem_mat(i, j) = sign[i] * sign[j] * elem_mat(i, j).
ElementMat_Flush_nosign(m, elem, emat) ==
  LET ds == IF nbasis > 0
            THEN ElementMat_get_dof(m, elem, 0, [dof |-> Zero(ndof), sign |-> Zero(ndof)])
            ELSE [dof |-> Zero(ndof), sign |-> Zero(ndof)]
  IN [n |-> ndof, rows |-> ds.dof, m |-> ndof, cols |-> ds.dof, block |-> emat]
ElementMat_Flush(m, elem, emat) ==
  LET ds == IF nbasis > 0
            THEN ElementMat_get_dof(m, elem, 0, [dof |-> Zero(ndof), sign |-> Zero(ndof)])
            ELSE [dof |-> Zero(ndof), sign |-> Zero(ndof)]
  IN [n |-> ndof, rows |-> ds.dof, m |-> ndof, cols |-> ds.dof,
      block |-> [i \in LocalDofs |-> [j \in LocalDofs |->
                   ds.sign[i] * ds.sign[j] * emat[i][j]]]]

\* MatType::add_values(n, rows, m, cols, block): entry (i, j) of the block is
\* added at (rows[i], cols[j]).
Mat_add_values(gmat, fl) ==
  [r \in GlobalDofs |-> [c \in GlobalDofs |->
     gmat[r][c] + SumOver({i \in 0..(fl.n - 1) : fl.rows[i] = r}, [i \in 0..(fl.n - 1) |->
                    SumOver({j \in 0..(fl.m - 1) : fl.cols[j] = c}, [j \in 0..(fl.m - 1) |->
                      fl.block[i][j]])])]]

\* ElementMat_Serial::add_element_values(elem, elem_mat)
\* The signed block is written into the caller's elem_mat itself, which is
\* then what mat.add_values gets: mat is the global matrix, elem_mat the
\* caller's FEMat after the call.
ElementMat_add_element_values(m, elem, gmat, emat) ==
  LET fl == ElementMat_Flush(m, elem, emat)
  IN [mat |-> Mat_add_values(gmat, fl), elem_mat |-> fl.block]

\* ------------------------------------------------------- add_residual
\* The arrays behind elem_data, elem_geo and elem_sol after the gathers g.
Gathered(g) ==
  /\ global_data' = g.data
  /\ global_geo' = g.geo
  /\ global_U' = g.U

Residual_Gather ==
  /\ pc = "gather" /\ op = "residual"
  /\ LET g == GatherQ(CurElem)
     IN q' = g.q /\ Gathered(g)
  /\ qj' = 0
  /\ pc' = IF num_quadrature_points > 0 THEN "quad" ELSE "scatter"
  /\ UNCHANGED <<mesh, sol_dof, last, nops, scatterVars, runVars, testVars, logVars>>
  /\ UNCHANGED <<global_res, global_x, global_y, mat, slab, ei, element_mat, merge_pc>>

Residual_Quad ==
  /\ pc = "quad" /\ op = "residual"
  /\ q' = [q EXCEPT !.res[qj] = ResidualPoint(q, qj)]
  /\ log' = Append(log, <<"weak", CurElem, qj>>)
  /\ qj' = qj + 1
  /\ pc' = IF qj + 1 < num_quadrature_points THEN "quad" ELSE "scatter"
  /\ UNCHANGED <<vecVars, scatterVars, globalVars, runVars, testVars, slab, ei, element_mat, merge_pc>>

\* res_dof(i, elem_res); elem_res.get_element_values(i, res_dof);
\* Basis::add(res, res_dof); elem_res.add_element_values(i, res_dof)
\* The output array and the output slab after these four statements for
\* element elem, qres the QptSpace of its pulled-back values.
ScatterElem(ev, m, elem, vec, array, qres) ==
  LET dof0 == ElemVec_FEDof(ev, array, elem)
      st1 == ElemVec_get_element_values(ev, m, elem, vec, dof0)
      dof2 == Basis_add(qres, st1.dof)
      st3 == ElemVec_add_element_values(ev, m, elem, st1.vec, dof2)
  IN [vec |-> st3.vec, array |-> ElemVec_store(ev, array, elem, st3.dof)]

ScatterOut(view, vec) ==
  LET out == ScatterElem(evtype, mesh, CurElem, vec, slab[view], q.res)
  IN [vec |-> out.vec, slab |-> [slab EXCEPT ![view] = out.array]]

NextElem_skip ==
  /\ ei' = ei + 2
  /\ pc' = IF ei + 2 < NumElements THEN "gather" ELSE "merge"
NextElem ==
  /\ ei' = ei + 1
  /\ pc' = IF ei + 1 < NumElements THEN "gather" ELSE "merge"

Residual_Scatter ==
  /\ pc = "scatter" /\ op = "residual"
  /\ LET out == ScatterOut("res", global_res)
     IN /\ global_res' = out.vec
        /\ slab' = out.slab
  /\ log' = Append(log, <<"scatter", CurElem, num_quadrature_points>>)
  /\ NextElem
  /\ UNCHANGED <<vecVars, scatterVars, runVars, testVars, qj, q, element_mat, merge_pc>>
  /\ UNCHANGED <<global_geo, global_data, global_x, global_y, mat>>

\* ---------------------------------------- add_jacobian_vector_product
Jvp_Gather ==
  /\ pc = "gather" /\ op = "jvp"
  /\ LET g == GatherQ(CurElem)
         gx == GatherX(CurElem)
     IN /\ q' = [g.q EXCEPT !.xsol = gx.xsol]
        /\ Gathered(g)
        /\ global_x' = gx.x
  /\ qj' = 0
  /\ pc' = IF num_quadrature_points > 0 THEN "quad" ELSE "scatter"
  /\ UNCHANGED <<mesh, sol_dof, last, nops, scatterVars, runVars, testVars, logVars>>
  /\ UNCHANGED <<global_res, global_y, mat, slab, ei, element_mat, merge_pc>>

Jvp_Quad ==
  /\ pc = "quad" /\ op = "jvp"
  /\ q' = [q EXCEPT !.res[qj] = JvpPoint(q, qj)]
  /\ qj' = qj + 1
  /\ pc' = IF qj + 1 < num_quadrature_points THEN "quad" ELSE "scatter"
  /\ UNCHANGED <<vecVars, scatterVars, globalVars, runVars, testVars, logVars, slab, ei, element_mat, merge_pc>>

Jvp_Scatter ==
  /\ pc = "scatter" /\ op = "jvp"
  /\ LET out == ScatterOut("y", global_y)
     IN /\ global_y' = out.vec
        /\ slab' = out.slab
  /\ NextElem
  /\ UNCHANGED <<vecVars, scatterVars, runVars, testVars, logVars, qj, q, element_mat, merge_pc>>
  /\ UNCHANGED <<global_geo, global_data, global_x, global_res, mat>>

\* -------------------------------------------------------- add_jacobian
Jac_Gather ==
  /\ pc = "gather" /\ op = "jacobian"
  /\ LET g == GatherQ(CurElem)
     IN q' = g.q /\ Gathered(g)
  /\ element_mat' = FEMat_new
  /\ qj' = 0
  /\ pc' = IF num_quadrature_points > 0 THEN "quad" ELSE "scatter"
  /\ UNCHANGED <<mesh, sol_dof, last, nops, scatterVars, runVars, testVars, logVars>>
  /\ UNCHANGED <<global_res, global_x, global_y, mat, slab, ei, merge_pc>>

Jac_Quad ==
  /\ pc = "quad" /\ op = "jacobian"
  /\ element_mat' = Basis_add_outer(qj, JacPoint(q, qj), element_mat)
  /\ qj' = qj + 1
  /\ pc' = IF qj + 1 < num_quadrature_points THEN "quad" ELSE "scatter"
  /\ UNCHANGED <<vecVars, scatterVars, globalVars, runVars, testVars, logVars, slab, ei, q, merge_pc>>

Jac_Scatter ==
  /\ pc = "scatter" /\ op = "jacobian"
  /\ LET out == ElementMat_add_element_values(mesh, CurElem, mat, element_mat)
     IN /\ mat' = out.mat
        /\ element_mat' = out.elem_mat
  /\ NextElem
  /\ UNCHANGED <<vecVars, scatterVars, runVars, testVars, logVars, slab, qj, q, merge_pc>>
  /\ UNCHANGED <<global_geo, global_data, global_x, global_res, global_y>>

\* ---------------------------------------------------------- add_values
\* Whether elem_out.add_values() has a slab to merge.
Merging == evtype = "Parallel" /\ op # "jacobian"

\* One atomic add of the merge of element elem; the merges of different
\* elements may run in any interleaving.
AddValues_Step ==
  /\ pc = "merge" /\ Merging
  /\ \E elem \in Elems :
       /\ merge_pc[elem] <= Len(Parallel_entries)
       /\ IF op = "jvp"
          THEN /\ global_y' = Parallel_atomic_add(mesh, elem, global_y, slab.y, merge_pc[elem])
               /\ UNCHANGED global_res
          ELSE /\ global_res' = Parallel_atomic_add(mesh, elem, global_res, slab.res, merge_pc[elem])
               /\ UNCHANGED global_y
       /\ merge_pc' = [merge_pc EXCEPT ![elem] = @ + 1]
  /\ UNCHANGED <<vecVars, scatterVars, runVars, testVars, logVars, slab, pc, ei, qj, q, element_mat>>
  /\ UNCHANGED <<global_geo, global_data, global_x, mat>>

\* add_values() returns: at once for a Serial view, after the last atomic add
\* of the last element for a Parallel one.
AddValues_Return ==
  /\ pc = "merge"
  /\ Merging => \A elem \in Elems : merge_pc[elem] > Len(Parallel_entries)
  /\ pc' = "done"
  /\ UNCHANGED <<vecVars, scatterVars, globalVars, runVars, testVars, logVars, slab, ei, qj, q, element_mat, merge_pc>>

Next ==
  \/ InitValues
  \/ InitZeroValues
  \/ CallAssembly
  \/ Residual_Gather
  \/ Residual_Quad
  \/ Residual_Scatter
  \/ Jvp_Gather
  \/ Jvp_Quad
  \/ Jvp_Scatter
  \/ Jac_Gather
  \/ Jac_Quad
  \/ Jac_Scatter
  \/ AddValues_Step
  \/ AddValues_Return

Spec == Init /\ [][Next]_vars

\* What element elem alone contributes to its local output dofs: the basis
\* projection of its reference-space coefficients (add_residual) or of its
\* pulled-back products J(s) * x (add_jacobian_vector_product).
ElemResidual(elem) ==
  LET qs == GatherQ(elem).q
  IN Basis_add([j \in QPoints |-> ResidualPoint(qs, j)], Zero(ndof))

ElemProduct(elem) ==
  LET qs == [GatherQ(elem).q EXCEPT !.xsol = GatherX(elem).xsol]
  IN Basis_add([j \in QPoints |-> JvpPoint(qs, j)], Zero(ndof))

\* The sign-corrected sum into global slot g of the contributions R[e] of
\* the elements in E, each counted once.
Assembled(E, R, g) ==
  SumOver(E, [e \in Elems |->
    SumOver(DofsOn(mesh, e, g), [d \in LocalDofs |-> SignOf(mesh, e, d) * R[e][d]])])

\* C3: with Serial views, after add_residual every global output slot holds
\* its value before the call plus the sign-corrected residuals of all the
\* elements that touch it, the previous value and every element counted once.
C3_ResidualAddsOnce ==
  (pc = "done" /\ op = "residual" /\ evtype = "Serial") =>
    \A g \in GlobalDofs :
      global_res[g] = init0.res[g] + Assembled(Elems, [e \in Elems |-> ElemResidual(e)], g)

\* C4: with Serial views, after add_jacobian_vector_product every slot of y
\* holds its previous value plus the sign-corrected products J(s) * x of all
\* the elements that touch it, each counted once.
C4_ProductAddsOnce ==
  (pc = "done" /\ op = "jvp" /\ evtype = "Serial") =>
    \A g \in GlobalDofs :
      global_y[g] = init0.y[g] + Assembled(Elems, [e \in Elems |-> ElemProduct(e)], g)

\* ------------------------------------------- element order (relabelling)
\* Every order in which the element loop may meet the elements of the mesh.
Orders == {f \in [Elems -> Elems] : \A a, b \in Elems : a # b => f[a] # f[b]}

InitOrder == InitRun(Orders, {"Serial"})

NextOrder ==
  \/ InitValues
  \/ InitZeroValues
  \/ CallAssembly
  \/ Residual_Gather
  \/ Residual_Quad
  \/ Residual_Scatter
  \/ Jvp_Gather
  \/ Jvp_Quad
  \/ Jvp_Scatter
  \/ Jac_Gather
  \/ Jac_Quad
  \/ Jac_Scatter
  \/ AddValues_Return

SpecOrder == InitOrder /\ [][NextOrder]_vars

\* The pulled-back quadrature values of element elem in this run.
ElemQres(elem) ==
  IF op = "jvp"
  THEN LET qs == [GatherQ(elem).q EXCEPT !.xsol = GatherX(elem).xsol]
       IN [j \in QPoints |-> JvpPoint(qs, j)]
  ELSE LET qs == GatherQ(elem).q
       IN [j \in QPoints |-> ResidualPoint(qs, j)]

\* The output array after the element loop met the elements in order ord,
\* from loop index i on.
RECURSIVE AssembleInOrder(_, _, _)
AssembleInOrder(ord, i, vec) ==
  IF i >= NumElements THEN vec
  ELSE AssembleInOrder(ord, i + 1,
         ScatterElem("Serial", mesh, ord[i], vec, ZeroSlab, ElemQres(ord[i])).vec)

\* C5: the array assembled by add_residual (and by the product) is the same
\* for every order in which the elements are processed.
C5_SameForEveryOrder ==
  (pc = "done" /\ op \in {"residual", "jvp"}) =>
    \A ord \in Orders :
      AssembleInOrder(ord, 0, IF op = "jvp" THEN init0.y ELSE init0.res)
        = (IF op = "jvp" THEN global_y ELSE global_res)

\* ------------------------------------------------- the Parallel strategy
\* C7: after init_values every slab entry (elem, d), d over all Basis::ndof
\* local dofs of all basis groups, is sign * global[global_dof], and the merge
\* of add_values goes through every such entry: no basis group is skipped.
C7_EveryGroupVisited ==
  /\ (evtype = "Parallel" /\ pc # "init_sol") =>
       \A elem \in Elems : \A d \in LocalDofs :
         slab.sol[elem][d] = SignOf(mesh, elem, d) * global_U[GlobalOf(mesh, elem, d)]
  /\ (evtype = "Parallel" /\ pc = "done" /\ Merging) =>
       {Parallel_entries[k].i + get_dof_offset(Parallel_entries[k].basis) :
          k \in 1..Len(Parallel_entries)} = LocalDofs

\* C8: whatever the interleaving of the atomic adds of add_values, when it
\* returns every global slot holds its value before the merge plus the sum
\* of sign * slab[elem][d] over all (elem, d) that map to it.
C8_MergeLosesNothing ==
  (pc = "done" /\ Merging) =>
    \A g \in GlobalDofs :
      (IF op = "jvp" THEN global_y[g] ELSE global_res[g])
        = (IF op = "jvp" THEN init0.y[g] ELSE init0.res[g])
          + Assembled(Elems, slab[OutView], g)

\* C9: in a Parallel run the global output array is written by no step of
\* the assembly loop; it changes only in add_values, after the compute step
\* of every element has finished.
C9_OutputWrittenOnlyInMerge ==
  [][(evtype = "Parallel" /\ (global_res' # global_res \/ global_y' # global_y))
       => (pc = "merge" /\ ei = NumElements)]_vars

\* A Parallel residual run that has finished with the output changed by the
\* merge and the values of a later element in the slab.
C9_Witness ==
  /\ evtype = "Parallel" /\ op = "residual" /\ pc = "done"
  /\ global_res # init0.res
  /\ slab.res[NumElements - 1] # Zero(ndof)

\* C10: the assembly routines leave the global solution, geometry and data
\* arrays, and the direction x, as they were when the run started (the
\* output is another array).
C10_InputsUnchanged ==
  /\ global_U = init0.U
  /\ global_geo = init0.geo
  /\ global_data = init0.data
  /\ global_x = init0.x

\* A finished Serial product that gathered all four inputs and changed y,
\* and a finished add_jacobian that filled the matrix.
C10_Witness ==
  /\ pc = "done" /\ evtype = "Serial"
  /\ \/ op = "jvp" /\ global_y # init0.y
     \/ op = "jacobian" /\ mat # ZeroMat
     \/ op = "residual" /\ global_res # init0.res

\* ------------------------------------- dense Jacobian against the product
\* x_dof of element elem as add_jacobian_vector_product gathers it.
ElemDirection(elem) ==
  ElemVec_get_element_values(evtype, mesh, elem, global_x,
                             ElemVec_FEDof(evtype, slab.x, elem)).dof

\* The local directions the dense Jacobian is applied to: the gathered x of
\* the element and the unit vectors.
Directions(elem) ==
  {ElemDirection(elem)} \cup
  {[d \in LocalDofs |-> IF d = k THEN 1 ELSE 0] : k \in LocalDofs}

\* What add_jacobian_vector_product makes of element elem for the local
\* direction xdof, from a zeroed y_dof.
ElemProductFor(elem, xdof) ==
  LET qs == [GatherQ(elem).q EXCEPT !.xsol = Basis_interp(xdof)]
  IN Basis_add([j \in QPoints |-> JvpPoint(qs, j)], Zero(ndof))

\* element_mat * xdof
MatVec(emat, xdof) ==
  [a \in LocalDofs |-> SumOver(LocalDofs, [b \in LocalDofs |-> emat[a][b] * xdof[b]])]

\* C11: for every element, with the same data, geometry and solution, the
\* dense element Jacobian that add_jacobian has accumulated over all the
\* quadrature points, applied to a direction, equals what
\* add_jacobian_vector_product contributes for that element and direction.
C11_JacobianMatchesProduct ==
  (op = "jacobian" /\ pc = "scatter") =>
    \A xdof \in Directions(CurElem) :
      MatVec(element_mat, xdof) = ElemProductFor(CurElem, xdof)

\* The dense Jacobian of the last element is complete, on a curved geometry
\* with the nonlinear weak form, and its product with x is not zero.
C11_Witness ==
  /\ op = "jacobian" /\ pc = "scatter" /\ ei = NumElements - 1
  /\ pde = "quadratic"
  /\ q.geo[0].grad # q.geo[1].grad
  /\ element_mat[0][0] # element_mat[1][1]
  /\ MatVec(element_mat, ElemDirection(CurElem)) # Zero(ndof)

\* --------------------------------------------- the product as a map of x
\* x_dof of element elem when the direction array is x: gathered from x
\* (Serial) or row elem of the slab that elem_x.init_values() fills from x.
DirectionOf(x, elem) ==
  ElemVec_get_element_values(evtype, mesh, elem, x,
    ElemVec_FEDof(evtype, Parallel_init_values(mesh, x, slab.x), elem)).dof

\* ysol of element elem for the direction array x.
ProductQres(x, elem) ==
  LET qs == [GatherQ(elem).q EXCEPT !.xsol = Basis_interp(DirectionOf(x, elem))]
  IN [j \in QPoints |-> JvpPoint(qs, j)]

\* The element loop of add_jacobian_vector_product for the direction array x,
\* from loop index i on: the array y and the slab of elem_y afterwards.
RECURSIVE ProductLoop(_, _, _)
ProductLoop(x, i, out) ==
  IF i >= NumElements THEN out
  ELSE ProductLoop(x, i + 1,
         ScatterElem(evtype, mesh, order[i], out.vec, out.array, ProductQres(x, order[i])))

\* elem_y.add_values(): the atomic adds of element elem from entry k on, then
\* those of the elements after it.
RECURSIVE MergeFrom(_, _, _, _)
MergeFrom(elem, k, vec, array) ==
  IF elem >= NumElements THEN vec
  ELSE IF k > Len(Parallel_entries) THEN MergeFrom(elem + 1, 1, vec, array)
  ELSE MergeFrom(elem, k + 1, Parallel_atomic_add(mesh, elem, vec, array, k), array)

\* elem_x.init_values(); elem_y.init_zero_values();
\* fe.add_jacobian_vector_product(...); elem_y.add_values() on y = 0.
RunProduct(x) ==
  LET out == ProductLoop(x, 0, [vec |-> Zero(num_dof), array |-> ZeroSlab])
  IN IF evtype = "Serial" THEN out.vec ELSE MergeFrom(0, 1, out.vec, out.array)

Scalars == {-1, 2}
Combine(a, x1, b, x2) == [g \in GlobalDofs |-> a * x1[g] + b * x2[g]]

\* C12: with y zeroed beforehand and data, geometry and solution fixed, the
\* y that add_jacobian_vector_product assembles is linear in x: the run gives
\* y = RunProduct(x), and RunProduct(a x1 + b x2) = a RunProduct(x1) +
\* b RunProduct(x2), on every mesh, shared dofs included.
C12_ProductLinearInX ==
  (pc = "done" /\ op = "jvp" /\ init0.y = Zero(num_dof)) =>
    /\ global_y = RunProduct(global_x)
    /\ \A a, b \in Scalars :
         \A x2 \in {Ramp(num_dof, 1, 0), Ramp(num_dof, 2, -1)} :
           RunProduct(Combine(a, global_x, b, x2))
             = Combine(a, RunProduct(global_x), b, RunProduct(x2))

\* ------------------------------------------------ scatter / gather round trip
\* Element elem has no global dof repeated among its local dofs.
Isolated(m, elem) == \A g \in GlobalDofs : Cardinality(DofsOn(m, elem, g)) <= 1

\* C13: on an element none of whose global dofs is repeated, (a) from a zero
\* global array, add_element_values(elem, d) followed by get_element_values(elem)
\* returns exactly d, whatever the signs; (b) get_element_values followed by
\* add_element_values of the gathered buffer adds to each global slot of the
\* element exactly its own previous value, and nothing to the other slots.
C13_RoundTrip ==
  /\ (/\ last.op = "get" /\ last.prev.op = "add" /\ last.prev.elem = last.elem
      /\ last.prev.vec = Zero(num_dof) /\ Isolated(mesh, last.elem))
       => sol_dof = last.prev.dof
  /\ (/\ last.op = "add" /\ last.prev.op = "get" /\ last.prev.elem = last.elem
      /\ Isolated(mesh, last.elem))
       => \A g \in GlobalDofs :
            global_U[g] = IF DofsOn(mesh, last.elem, g) # {}
                          THEN 2 * last.vec[g] ELSE last.vec[g]

\* (a) happened with a negative sign on a non-zero entry of d.
C13_Witness ==
  /\ last.op = "get" /\ last.prev.op = "add" /\ last.prev.elem = last.elem
  /\ last.prev.vec = Zero(num_dof) /\ Isolated(mesh, last.elem)
  /\ \E d \in LocalDofs : SignOf(mesh, last.elem, d) = -1 /\ last.prev.dof[d] # 0
  /\ \A d \in LocalDofs : last.prev.dof[d] # 0

\* ------------------------------------------------------ set_element_values
\* The last local dof of element elem that set_element_values writes to
\* global dof g: the groups go up from 0 and the indices up in each group.
LastDofOn(m, elem, g) ==
  CHOOSE d \in DofsOn(m, elem, g) : \A e \in DofsOn(m, elem, g) : e <= d

\* get_element_values followed by set_element_values of the gathered buffer
\* leaves the global array unchanged.
GetThenSetUnchanged ==
  (last.op = "set" /\ last.prev.op = "get" /\ last.prev.elem = last.elem)
    => global_U = last.vec

\* C14 as stated: set_element_values(elem, dof) leaves sign(elem,i) *
\* dof[offset+i] in global[global_dof(elem,i)] for every local dof of every
\* basis group, whatever the slot held, and changes no other slot; get followed
\* by set of the gathered buffer leaves the global array unchanged.
C14_SetOverwritesEvery ==
  /\ last.op = "set" =>
       /\ \A b \in Groups : \A i \in 0..(get_ndof(b) - 1) :
            global_U[get_global_dof(mesh, last.elem, b, i)] =
              get_global_dof_sign(mesh, last.elem, b, i) * last.dof[get_dof_offset(b) + i]
       /\ \A g \in GlobalDofs : DofsOn(mesh, last.elem, g) = {} => global_U[g] = last.vec[g]
  /\ GetThenSetUnchanged

\* C14, amended: set_element_values(elem, dof) leaves in every global slot
\* that local dofs of the element map to sign * dof of the last such local
\* dof (the only one when the slot is not repeated inside the element),
\* whatever the slot held, and changes no other slot; get followed by set of
\* the gathered buffer leaves the global array unchanged.
C14_SetOverwritesLastWins ==
  /\ last.op = "set" =>
       \A g \in GlobalDofs :
         global_U[g] = IF DofsOn(mesh, last.elem, g) = {} THEN last.vec[g]
                       ELSE SignOf(mesh, last.elem, LastDofOn(mesh, last.elem, g))
                              * last.dof[LastDofOn(mesh, last.elem, g)]
  /\ GetThenSetUnchanged

\* A set that changed a slot with a negative sign, on an element whose two
\* signed dofs sit on one global dof with different signed values.
C14_Witness ==
  /\ last.op = "set"
  /\ \E d \in LocalDofs :
       /\ SignOf(mesh, last.elem, d) = -1 /\ last.dof[d] # 0
       /\ global_U[GlobalOf(mesh, last.elem, d)] # last.vec[GlobalOf(mesh, last.elem, d)]
  /\ \E d, e \in LocalDofs :
       /\ d < e /\ GlobalOf(mesh, last.elem, d) = GlobalOf(mesh, last.elem, e)
       /\ SignOf(mesh, last.elem, d) * last.dof[d] # SignOf(mesh, last.elem, e) * last.dof[e]

\* ------------------------------------------- calls outside the precondition
\* operate_element_values_ checks neither elem_index nor dof_index: with
\* elem_index >= get_num_elements() the mesh hands back whatever lies behind
\* its connectivity, with a dangling connectivity some index lies behind the
\* array, and vec[dof_index] is then read or written unchecked.  That is
\* undefined behaviour: the process may die at an access outside an array
\* (aborted), or go on with what it got.
\* A sign read behind the sign table is any int (0 from zero-filled memory,
\* 2 for every other value); a dangling connectivity leaves the sign table
\* as it is.
JunkSigns(cause) == IF cause = "elem" THEN {-1, 0, 1, 2} ELSE {-1, 1}

\* A value a read behind the global array may yield (99: one that no slot of
\* the array holds).
JunkValues == {-MaxVal, 0, MaxVal, 99}

\* The arrays main allocates beside global_U, in the order in which the
\* model lists them: a write behind global_U may hit any slot of any of them.
Neighbours == <<"res", "geo", "data", "x", "y">>

\* Where a write behind the global array may land: each write on its own in
\* slot (land % num_dof) of array (land \div num_dof + 1) of Neighbours, or
\* in no array of the program (-1).
Lands == {-1} \cup 0..(Len(Neighbours) * num_dof - 1)

\* What the mesh hands back for the local dofs of the call: for each local dof
\* its own global index, inside the array or behind it (num_dof stands for
\* every index behind), and its own sign.  A dangling connectivity has an
\* index behind the array; behind the connectivity anything may lie.
JunkIndices(cause) ==
  {row \in [idx : [LocalDofs -> 0..num_dof], sign : [LocalDofs -> JunkSigns(cause)]] :
     cause = "conn" => \E d \in LocalDofs : row.idx[d] \notin GlobalDofs}

\* The local entries at which the call reaches outside the global array.
Outside(row) == {d \in LocalDofs : row.idx[d] \notin GlobalDofs}

\* The entries at which the process may die: an access outside the global
\* array and, for an element index out of range, the first read of the mesh.
AbortPoints(cause, row) == Outside(row) \cup (IF cause = "elem" THEN {0} ELSE {})

\* The mesh of the call together with what its tables hand back for the call:
\* the row behind the tables (cause "elem") or the dangling connectivity row
\* of element 0 (cause "conn").
BrokenMesh(cause, row) ==
  [nverts |-> geomesh.nverts, flip |-> geomesh.flip, cause |-> cause, row |-> row]

\* The loop of operate_element_values_ over the local entries from k on, with
\* the indices and signs of row, up to entry stop (ndof: to the end);
\* st = [vec |-> the global array, dof |-> the FEDof, mem |-> the arrays
\* beside the global array, in the order of Neighbours].  An access inside
\* the array is the usual GET, ADD or SET with that index and sign; a read
\* behind the array yields the value behind[k], a write behind it is the same
\* ADD or SET on the slot behind[k] names in an array beside it, or lands in
\* no array.
RECURSIVE JunkLoop(_, _, _, _, _, _)
JunkLoop(kind, row, behind, stop, k, st) ==
  IF k >= ndof \/ k = stop THEN st
  ELSE LET j == row.idx[k]
           sign == row.sign[k]
           nxt == IF j \in GlobalDofs
                  THEN CASE kind = "GET" -> op_GET(st, k, j, sign)
                         [] kind = "ADD" -> op_ADD(st, k, j, sign)
                         [] kind = "SET" -> op_SET(st, k, j, sign)
                  ELSE IF kind = "GET" THEN [st EXCEPT !.dof[k] = sign * behind[k]]
                  ELSE IF behind[k] < 0 THEN st
                  ELSE LET arr == behind[k] \div num_dof + 1
                           slot == behind[k] % num_dof
                           there == [vec |-> st.mem[arr], dof |-> st.dof]
                           hit == IF kind = "ADD" THEN op_ADD(there, k, slot, sign)
                                  ELSE op_SET(there, k, slot, sign)
                       IN [st EXCEPT !.mem[arr] = hit.vec]
       IN JunkLoop(kind, row, behind, stop, k + 1, nxt)

\* elem_sol.get/add/set_element_values(elem, sol_dof) with elem =
\* get_num_elements() (cause "elem"), or with a connectivity whose global
\* indices lie behind the array (cause "conn"), on the row the mesh hands
\* back.  Nothing is said about what the program does after such a call.
OutOfRangeCall ==
  /\ nops < MaxOps
  /\ last.op # "out_of_range"
  /\ \E kind \in {"GET", "ADD", "SET"}, aborted \in BOOLEAN :
       \E stop \in IF aborted THEN AbortPoints(mesh.cause, mesh.row) ELSE {ndof} :
         \E behind \in [{d \in Outside(mesh.row) : d < stop} ->
                          IF kind = "GET" THEN JunkValues ELSE Lands] :
           \E st \in {JunkLoop(kind, mesh.row, behind, stop, 0,
                                [vec |-> global_U, dof |-> sol_dof,
                                 mem |-> <<global_res, global_geo, global_data,
                                           global_x, global_y>>])} :
              /\ sol_dof' = st.dof
              /\ global_U' = st.vec
              /\ global_res' = st.mem[1]
              /\ global_geo' = st.mem[2]
              /\ global_data' = st.mem[3]
              /\ global_x' = st.mem[4]
              /\ global_y' = st.mem[5]
              /\ last' = [op |-> "out_of_range", kind |-> kind, cause |-> mesh.cause,
                          aborted |-> aborted,
                          elem |-> IF mesh.cause = "elem" THEN NumElements ELSE 0] @@ Before
  /\ nops' = nops + 1
  /\ UNCHANGED <<mesh, scatterVars, mat, runVars, loopVars, testVars, logVars>>

\* The calls are made on the mesh of the geometry, on the global array
\* [1, 2, 3, ...] and with the FEDof [1, 2, 3, ...]; the arrays beside the
\* global array are zero.
InitPre ==
  /\ \E cause \in {"elem", "conn"} : \E row \in JunkIndices(cause) : mesh = BrokenMesh(cause, row)
  /\ global_U = Ramp(num_dof, 1, 1)
  /\ sol_dof = Ramp(ndof, 1, 1)
  /\ last = [op |-> "none", elem |-> 0, vec |-> global_U, dof |-> sol_dof,
             prev |-> [op |-> "none", elem |-> 0, vec |-> global_U, dof |-> sol_dof]]
  /\ nops = 0
  /\ pairs = <<>>
  /\ pending = {}
  /\ AsmIdle
  /\ test = TestIdle

NextPre == OutOfRangeCall

SpecPre == InitPre /\ [][NextPre]_vars

\* C15: a get/add/set_element_values call with an element index >=
\* get_num_elements(), or with connectivity that yields a global dof index
\* outside the global array, aborts, and no slot of the global array is
\* modified.
C15_OutOfRangeAborts ==
  last.op = "out_of_range" => (last.aborted /\ global_U = last.vec)

\* ------------------------------------------------- degenerate geometry
\* Geometries with a quadrature point where the gradient of the position is
\* not positive: collapsed elements (0 at both points), a bubble as large as
\* the element (0 at point 1) and a larger one (negative at point 1).
SingularGeos ==
  {[g \in GlobalDofs |-> IF g < NumVerts THEN kb[1] * g ELSE kb[2]] :
     kb \in {<<0, 0>>, <<1, 1>>, <<1, 2>>}}

InitSingular == InitRunOn({Identity}, {"Serial", "Parallel"}, SingularGeos)

SpecSingular == InitSingular /\ [][Next]_vars

\* Element elem has a quadrature point with a singular or inverted Jacobian.
SingularElem(elem) ==
  \E j \in QPoints : MatDet(GatherQ(elem).q.geo[j].grad) <= 0

\* C16: an element with a quadrature point where the local Jacobian is
\* singular or has a non-positive determinant is never scatter-added: the
\* element loop does not get past it (the call fails instead).
C16_SingularNotScattered ==
  \A i \in Elems : i < ei => ~SingularElem(order[i])

\* ------------------------------------------------------ init_zero_values
\* C17: init_zero_values never changes a global array: for the Parallel
\* strategy it sets every entry of the slab of the output view to zero and
\* leaves everything else as it was; for the Serial strategy init_values,
\* init_zero_values and add_values change nothing at all (the driver moves on).
C17_InitZeroFrame ==
  [][/\ pc = "zero" =>
          /\ UNCHANGED <<global_U, globalVars>>
          /\ evtype = "Parallel" =>
               slab' = [slab EXCEPT ![OutView] = [elem \in Elems |-> Zero(ndof)]]
     /\ (evtype = "Serial" /\ pc \in {"init_sol", "init_x", "zero", "merge"}) =>
          UNCHANGED <<vecVars, scatterVars, globalVars, runVars, testVars, logVars,
                      slab, ei, qj, q, element_mat, merge_pc>>]_vars

\* init_zero_values has zeroed a slab that held values, beside a global
\* output array that is not zero.
C17_Witness ==
  /\ evtype = "Parallel" /\ op = "residual" /\ pc = "call"
  /\ slab.y = StaleSlab /\ slab.res = ZeroSlab
  /\ global_res # Zero(num_dof) /\ global_res = init0.res

\* ================================================= TestPDEImplementation
\* The numbers of the test are kept exact as polynomials in the step dh,
\* a[k] the coefficient of dh^k, with a real and an imaginary part (the
\* imaginary part stays 0 when T is real).
Degs == (-1)..2
PConst(n) == [k \in Degs |-> IF k = 0 THEN n ELSE 0]
PAdd(a, b) == [k \in Degs |-> a[k] + b[k]]
PSub(a, b) == [k \in Degs |-> a[k] - b[k]]
PScale(n, a) == [k \in Degs |-> n * a[k]]
PMul(a, b) ==
  [k \in Degs |->
     SumOver({i \in Degs : k - i \in Degs}, [i \in Degs |-> IF k - i \in Degs THEN a[i] * b[k - i] ELSE 0])]
\* a * dh and a / dh
PTimesDh(a) == [k \in Degs |-> IF k - 1 \in Degs THEN a[k - 1] ELSE 0]
PDivDh(a) == [k \in Degs |-> IF k + 1 \in Degs THEN a[k + 1] ELSE 0]

NConst(n) == [re |-> PConst(n), im |-> PConst(0)]
NAdd(x, y) == [re |-> PAdd(x.re, y.re), im |-> PAdd(x.im, y.im)]
NSub(x, y) == [re |-> PSub(x.re, y.re), im |-> PSub(x.im, y.im)]
NScale(n, x) == [re |-> PScale(n, x.re), im |-> PScale(n, x.im)]
NMul(x, y) ==
  [re |-> PSub(PMul(x.re, y.re), PMul(x.im, y.im)),
   im |-> PAdd(PMul(x.re, y.im), PMul(x.im, y.re))]
NTimesDh(x) == [re |-> PTimesDh(x.re), im |-> PTimesDh(x.im)]
NDivDh(x) == [re |-> PDivDh(x.re), im |-> PDivDh(x.im)]
\* x * std::complex<double>(0.0, 1.0)
NTimesI(x) == [re |-> PScale(-1, x.im), im |-> x.re]
\* std::imag(x)
NImag(x) == [re |-> x.im, im |-> PConst(0)]
NVec(v) == [c \in Comps |-> NConst(v[c])]

\* transform, weak, JacVecProduct and rtransform on the numbers of the test;
\* detJ and Jinv are those of the one J > 0 of the test, so the cell
\* component is scaled with 1.
transformN(detJ, J, sref) == [c \in Comps |-> IF c = 0 THEN NScale(J, sref[c]) ELSE sref[c]]
rtransformN(detJ, J, coef) == [c \in Comps |-> IF c = 0 THEN NScale(J, coef[c]) ELSE coef[c]]
weakN(kind, wdetJ, data, s) ==
  [c \in Comps |-> IF kind = "identity" THEN NScale(wdetJ, s[c])
                   ELSE IF kind = "mixed" THEN NScale(wdetJ, NAdd(s[0], s[ncomp - 1]))
                   ELSE NScale(wdetJ, NAdd(NMul(s[c], s[c]), NConst(data[c])))]
JacVecProductN(kind, wdetJ, data, s, x) ==
  [c \in Comps |-> IF kind = "identity" THEN NScale(wdetJ, x[c])
                   ELSE IF kind = "mixed" THEN NScale(wdetJ, NAdd(x[0], x[ncomp - 1]))
                   ELSE NScale(2 * wdetJ, NMul(s[c], x[c]))]

\* sref.transform(detJ, J, Jinv, s); pde.weak(detJ, data, geo, s, coef);
\* coef.rtransform(detJ, J, Jinv, cref)
TestCoef(kind, J, data, sref) ==
  LET detJ == MatDet(J)
      s == transformN(detJ, J, sref)
      coef == weakN(kind, detJ, data, s)
  IN rtransformN(detJ, J, coef)

\* double dh = 1e-7
dh_default == "1e-7"

\* The random draws and the call: T real or complex, dh passed or defaulted.
InitTest ==
  /\ mesh = geomesh
  /\ global_U = Zero(num_dof)
  /\ sol_dof = FEDof_new
  /\ last = [op |-> "none", elem |-> 0, vec |-> global_U, dof |-> sol_dof]
  /\ nops = 0
  /\ pairs = <<>>
  /\ pending = {}
  /\ AsmIdle
  /\ \E T \in {"real", "complex"}, kind \in PDEKinds, arg \in {"none", "given"},
        J \in {1, 2}, sref \in [Comps -> {-1, MaxVal}], pref \in [Comps -> {1, -MaxVal}] :
       test = [pc |-> "start", T |-> T, pde |-> kind, arg |-> arg,
               dh |-> IF arg = "none" THEN dh_default ELSE "dh",
               data |-> [c \in Comps |-> 1], J |-> J,
               sref |-> NVec(sref), pref |-> NVec(pref),
               cref0 |-> NVec(Zero(ncomp)), cref |-> NVec(Zero(ncomp)),
               Jpref |-> NVec(Zero(ncomp)), fd |-> NVec(Zero(ncomp))]

TestFrame == UNCHANGED <<vecVars, scatterVars, globalVars, runVars, loopVars, logVars>>

\* The coefficients at sref: cref0
Test_Base ==
  /\ test.pc = "start"
  /\ test' = [test EXCEPT !.pc = "base",
                          !.cref0 = TestCoef(test.pde, test.J, test.data, test.sref)]
  /\ TestFrame

\* sref[i] = sref[i] + dh * pref[i], times i when T is complex
Test_Perturb ==
  /\ test.pc = "base"
  /\ test' = [test EXCEPT !.pc = "perturbed",
                !.sref = [c \in Comps |->
                   NAdd(test.sref[c],
                        IF test.T = "complex" THEN NTimesI(NTimesDh(test.pref[c]))
                        ELSE NTimesDh(test.pref[c]))]]
  /\ TestFrame

\* The coefficients at the perturbed sref: cref
Test_Coef ==
  /\ test.pc = "perturbed"
  /\ test' = [test EXCEPT !.pc = "coef",
                          !.cref = TestCoef(test.pde, test.J, test.data, test.sref)]
  /\ TestFrame

\* typename PDE::JacVecProduct jvp(pde, detJ, data, geo, s): what the functor
\* of the test is bound to. s is the variable the second transform wrote,
\* the physical state of the sref that the test holds at this line.
TestFunctor(tst) ==
  LET detJ == MatDet(tst.J)
  IN [wdetJ |-> detJ, data |-> tst.data, s |-> transformN(detJ, tst.J, tst.sref)]

\* jvp(pde, detJ, data, geo, s); pref.transform(p); jvp(p, Jp); Jp.rtransform(Jpref)
Test_Jvp ==
  /\ test.pc = "coef"
  /\ LET detJ == MatDet(test.J)
         jvp == TestFunctor(test)
         p == transformN(detJ, test.J, test.pref)
         Jp == JacVecProductN(test.pde, jvp.wdetJ, jvp.data, jvp.s, p)
     IN test' = [test EXCEPT !.pc = "jvp", !.Jpref = rtransformN(detJ, test.J, Jp)]
  /\ TestFrame

\* fd[i] = imag(cref[i]) / dh (complex) or (cref[i] - cref0[i]) / dh (real)
Test_Difference_reversed ==
  /\ test.pc = "jvp"
  /\ test' = [test EXCEPT !.pc = "done",
                !.fd = [c \in Comps |->
                   IF test.T = "complex" THEN NDivDh(NImag(test.cref[c]))
                   ELSE NDivDh(NSub(test.cref0[c], test.cref[c]))]]
  /\ TestFrame
Test_Difference ==
  /\ test.pc = "jvp"
  /\ test' = [test EXCEPT !.pc = "done",
                !.fd = [c \in Comps |->
                   IF test.T = "complex" THEN NDivDh(NImag(test.cref[c]))
                   ELSE NDivDh(NSub(test.cref[c], test.cref0[c]))]]
  /\ TestFrame

NextTest ==
  \/ Test_Base
  \/ Test_Perturb
  \/ Test_Coef
  \/ Test_Jvp
  \/ Test_Difference

SpecTest == InitTest /\ [][NextTest]_vars

\* The reference state the test drew, and the coefficients c(s + z * dh * p)
\* for z = 1 ("plus"), -1 ("minus") or i ("i").
TestSref0 == [c \in Comps |-> NConst(test.sref[c].re[0])]
CoefAlong(z) ==
  TestCoef(test.pde, test.J, test.data,
    [c \in Comps |->
       NAdd(TestSref0[c],
            IF z = "i" THEN NTimesI(NTimesDh(test.pref[c]))
            ELSE NScale(IF z = "plus" THEN 1 ELSE -1, NTimesDh(test.pref[c])))])

\* C18 as stated: TestPDEImplementation estimates the derivative by the central
\* difference (c(s + dh*p) - c(s - dh*p)) / (2*dh) when the numeric type is
\* real and by imag(c(s + i*dh*p)) / dh when it is complex; dh defaults to 1e-7.
C18_CentralOrComplexStep ==
  test.pc = "done" =>
    /\ test.T = "real" =>
         \A c \in Comps :
           NScale(2, test.fd[c]) = NDivDh(NSub(CoefAlong("plus")[c], CoefAlong("minus")[c]))
    /\ test.T = "complex" =>
         \A c \in Comps : test.fd[c] = NDivDh(NImag(CoefAlong("i")[c]))
    /\ test.arg = "none" => test.dh = dh_default

\* C18, amended: TestPDEImplementation estimates the derivative by the
\* forward difference (c(s + dh*p) - c(s)) / dh when the numeric type is real
\* and by imag(c(s + i*dh*p)) / dh when it is complex; dh defaults to 1e-7.
C18_ForwardOrComplexStep ==
  test.pc = "done" =>
    /\ test.T = "real" =>
         \A c \in Comps :
           test.fd[c] = NDivDh(NSub(CoefAlong("plus")[c],
                                    TestCoef(test.pde, test.J, test.data, TestSref0)[c]))
    /\ test.T = "complex" =>
         \A c \in Comps : test.fd[c] = NDivDh(NImag(CoefAlong("i")[c]))
    /\ test.arg = "none" => test.dh = dh_default

\* A finished real test of the nonlinear weak form with the default step,
\* whose estimate carries a term in dh and no term in 1/dh.
C18_Witness ==
  /\ test.pc = "done" /\ test.T = "real" /\ test.pde = "quadratic"
  /\ test.arg = "none" /\ test.J # 1
  /\ \A c \in Comps : test.fd[c].re[1] # 0 /\ test.fd[c].re[-1] = 0 /\ test.fd[c].re[0] # 0

\* ------------------------------------------ the unit-element scenario
\* Identity geometry (gradient 1 at every point), weak form coef = w * s,
\* solution all ones, output zero before the call.
ScenarioInputs ==
  /\ op = "residual" /\ pde = "identity"
  /\ init0.geo = [g \in GlobalDofs |-> IF g < NumVerts THEN g ELSE 0]
  /\ init0.U = Ramp(num_dof, 1, 0)
  /\ init0.res = Zero(num_dof)

\* The output array holds the assembly of exactly one element, the first of
\* the loop: scatter-added by add_residual (Serial), or merged by add_values
\* with no add of another element done yet (Parallel).
OneElementAssembled ==
  \/ evtype = "Serial" /\ ei = 1
  \/ /\ evtype = "Parallel" /\ pc = "merge"
     /\ \A elem \in Elems :
          merge_pc[elem] = IF elem = order[0] THEN Len(Parallel_entries) + 1 ELSE 1

\* The global slots of basis group b of the first element.
GroupSlots(b) ==
  {GlobalOf(mesh, order[0], d) : d \in {e \in LocalDofs : GroupOf(e) = b}}

\* C19: in the scenario, the residual assembled for one element totals, in
\* every field (basis group), the sum of the quadrature weights.
C19_UnitElementResidual ==
  (ScenarioInputs /\ OneElementAssembled) =>
    \A b \in Groups :
      SumOver(GroupSlots(b), global_res)
        = SumOver(QPoints, [j \in QPoints |-> get_weight(j)])

\* ------------------------------------------------ the linearization point
\* What the claim says the functor is bound to at point j of element elem:
\* weight(j) * detJ, the data and the geometry at j, and the transformed
\* interpolated solution at j.
ExpectedBinding(elem, j) ==
  LET g == GatherQ(elem).q
      J == g.geo[j].grad
  IN [wdetJ |-> get_weight(j) * MatDet(J), data |-> g.data[j], geo |-> g.geo[j],
      s |-> transform(MatDet(J), J, MatInverse(J), g.sol[j])]

\* C20: at quadrature point j of element e, add_jacobian_vector_product and
\* add_jacobian bind the derivative operator to exactly the same arguments:
\* weight(j) * detJ, the data at j, the geometry at j and the physical state
\* s got by transforming the interpolated reference solution at j; the
\* binding does not depend on the direction x (nor on the probe index k: it
\* is made once per point).
C20_SameLinearizationPoint ==
  (pc = "quad" /\ op \in {"jvp", "jacobian"}) =>
    /\ (IF op = "jvp" THEN JvpFunctor(q, qj) ELSE JacFunctor(q, qj))
         = ExpectedBinding(CurElem, qj)
    /\ JvpFunctor(q, qj) = JacFunctor(q, qj)
    /\ \A xdof \in Directions(CurElem) :
         JvpFunctor([q EXCEPT !.xsol = Basis_interp(xdof)], qj) = JvpFunctor(q, qj)

\* add_jacobian at a point of the last element where detJ is not 1, curved
\* geometry, nonlinear weak form, a state s that is not zero.
C20_Witness ==
  /\ pc = "quad" /\ op = "jacobian"
  /\ ei = NumElements - 1 /\ pde = "quadratic"
  /\ q.geo[0].grad # q.geo[1].grad
  /\ JacFunctor(q, qj).wdetJ # get_weight(qj)
  /\ \A c \in Comps : JacFunctor(q, qj).s[c] # 0

\* --------------------------------------------------------------- C21
\* The geometry the claim assigns to quadrature point j of element elem: J is
\* the geometry gradient at j of that element, read from the global geometry
\* array; Jinv and detJ come from that J, and the weighted determinant is
\* weight(j) * detJ.
ExpectedFrame(elem, j) ==
  LET X == [d \in LocalDofs |-> global_geo[GlobalOf(geomesh, elem, d)]]
      J == Geo_grad(X, j)
  IN [J |-> J, Jinv |-> MatInverse(J), detJ |-> MatDet(J),
      wdetJ |-> get_weight(j) * MatDet(J)]

\* The value the claim assigns to the pulled-back result of point j: both
\* transforms take (detJ, J, Jinv) of the frame, the weak form or the
\* derivative operator takes weight(j) * detJ.
ExpectedPoint(elem, j) ==
  LET f == ExpectedFrame(elem, j)
      s == transform(f.detJ, f.J, f.Jinv, q.sol[j])
      inner == IF op = "residual"
               THEN weak(pde, get_weight(j) * f.detJ, q.data[j], q.geo[j], s)
               ELSE JacVecProduct(pde, get_weight(j) * f.detJ, q.data[j], q.geo[j], s,
                                  transform(f.detJ, f.J, f.Jinv, q.xsol[j]))
  IN rtransform(f.detJ, f.J, f.Jinv, inner)

\* Column k of the per-point matrix of add_jacobian as the claim states it:
\* the probe e_k goes through transform, the derivative operator bound to
\* weight(j) * detJ, and rtransform, all with the frame of point j.
ExpectedProbed(elem, j, k) ==
  LET f == ExpectedFrame(elem, j)
      s == transform(f.detJ, f.J, f.Jinv, q.sol[j])
      p == transform(f.detJ, f.J, f.Jinv, [c \in Comps |-> IF c = k THEN 1 ELSE 0])
  IN rtransform(f.detJ, f.J, f.Jinv,
                JacVecProduct(pde, get_weight(j) * f.detJ, q.data[j], q.geo[j], s, p))

\* C21: in every assembly routine the matrix J, its inverse and detJ used at
\* quadrature point j are those of the geometry gradient at point j of the
\* current element; transform and rtransform at j take that same
\* (detJ, J, Jinv) with the unweighted detJ, and the weak form or derivative
\* operator takes weight(j) * detJ: every value a point produces is the one
\* computed with these arguments.
C21_PointGeometry ==
  /\ (pc = "quad" /\ op = "residual") =>
       /\ ResidualFrame(q, qj) = ExpectedFrame(CurElem, qj)
       /\ ResidualPoint(q, qj) = ExpectedPoint(CurElem, qj)
  /\ (pc = "quad" /\ op = "jvp") =>
       /\ JvpFrame(q, qj) = ExpectedFrame(CurElem, qj)
       /\ JvpPoint(q, qj) = ExpectedPoint(CurElem, qj)
  /\ (pc = "quad" /\ op = "jacobian") =>
       /\ JacFrame(q, qj) = ExpectedFrame(CurElem, qj)
       /\ JacFunctor(q, qj).wdetJ = ExpectedFrame(CurElem, qj).wdetJ
       /\ \A m, k \in Comps : JacPoint(q, qj)[m][k] = ExpectedProbed(CurElem, qj, k)[m]
  /\ (pc \in {"quad", "scatter"} /\ op \in {"residual", "jvp"}) =>
       \A j \in QPoints : j < qj => q.res[j] = ExpectedPoint(CurElem, j)

\* The second point of the last element has been evaluated on a curved
\* geometry: its J differs from the J of the first point, its weight is not
\* 1, and the cell component of its state is one that a transform given the
\* weighted detJ, or the Jinv of the first point, would change.
C21_Witness ==
  /\ pc = "scatter" /\ op = "residual" /\ ei = NumElements - 1
  /\ LET f0 == ExpectedFrame(CurElem, 0)
         f == ExpectedFrame(CurElem, 1)
         s == transform(f.detJ, f.J, f.Jinv, q.sol[1])
     IN /\ f0.J # f.J
        /\ f.wdetJ # f.detJ
        /\ transform(f.wdetJ, f.J, f.Jinv, q.sol[1]) # s
        /\ transform(f.detJ, f.J, f0.Jinv, q.sol[1]) # s
        /\ rtransform(f.wdetJ, f.J, f.Jinv, s) # rtransform(f.detJ, f.J, f.Jinv, s)
        /\ q.res[1][ncomp - 1] # 0

\* --------------------------------------------------------------- C22
OneHot(k) == [c \in Comps |-> IF c = k THEN 1 ELSE 0]

\* Column k of the per-point matrix as the claim states it:
\* rtransform(jvp(transform(e_k))) at point j of element elem.
ExpectedColumn(elem, j, k) ==
  LET f == ExpectedFrame(elem, j)
      b == ExpectedBinding(elem, j)
      p == transform(f.detJ, f.J, f.Jinv, OneHot(k))
  IN rtransform(f.detJ, f.J, f.Jinv, JacVecProduct(pde, b.wdetJ, b.data, b.geo, b.s, p))

ExpectedJac(elem, j) == [m \in Comps |-> [k \in Comps |-> ExpectedColumn(elem, j, k)[m]]]

\* The element matrix after the first n quadrature points of element elem,
\* from a zero buffer.
RECURSIVE ExpectedMat(_, _)
ExpectedMat(elem, n) ==
  IF n = 0 THEN FEMat_new
  ELSE Basis_add_outer(n - 1, ExpectedJac(elem, n - 1), ExpectedMat(elem, n - 1))

\* C22: at every quadrature point of add_jacobian all ncomp * ncomp entries
\* of the per-point matrix are written, the probe of column k is exactly the
\* one-hot vector e_k although the variable that holds it held the pulled-back
\* result of column k - 1, and column k equals
\* rtransform(jvp(transform(e_k))); the element matrix accumulated so far is
\* the sum of the outer products of these matrices.
C22_ColumnsFromOneHotProbes ==
  /\ (pc = "quad" /\ op = "jacobian") =>
       LET st == JacColumns(q, qj, 0, JacStart)
       IN /\ st.written = Comps \X Comps
          /\ \A k \in Comps : st.probes[k] = OneHot(k)
          /\ \A m, k \in Comps : st.jac[m][k] = ExpectedColumn(CurElem, qj, k)[m]
          /\ JacPoint(q, qj) = ExpectedJac(CurElem, qj)
  /\ (pc \in {"quad", "scatter"} /\ op = "jacobian") =>
       element_mat = ExpectedMat(CurElem, qj)

\* add_jacobian has finished the points of the last element, and at the last
\* point the result of column 0, which the probe of column 1 overwrites, is
\* not zero.
C22_Witness ==
  /\ pc = "scatter" /\ op = "jacobian" /\ ei = NumElements - 1
  /\ pde = "quadratic"
  /\ ExpectedColumn(CurElem, num_quadrature_points - 1, 0)[0] # 0
  /\ \E a, b \in LocalDofs : element_mat[a][b] # 0

\* --------------------------------------------------------------- C23
\* C23: add_jacobian flushes one dense block per element: the buffer is all
\* zero when the element starts, the global matrix changes only in the flush
\* that ends an element, and that flush hands the sink the block
\* sign(e,i) * sign(e,j) * A(i,j), A being the sum over the points of this
\* element only, with the element's global dof list over all basis groups in
\* offset order as both row and column indices.
C23_OneSignedBlockPerElement ==
  [][op = "jacobian" =>
       /\ pc = "gather" => element_mat' = FEMat_new
       /\ mat' # mat => (pc = "scatter" /\ ei' = ei + 1)
       /\ pc = "scatter" =>
            LET fl == ElementMat_Flush(mesh, CurElem, element_mat)
                A == ExpectedMat(CurElem, num_quadrature_points)
                dofs == [d \in LocalDofs |-> GlobalOf(mesh, CurElem, d)]
            IN /\ fl.rows = dofs /\ fl.cols = dofs
               /\ fl.n = ndof /\ fl.m = ndof
               /\ \A i, j \in LocalDofs :
                    fl.block[i][j] = SignOf(mesh, CurElem, i) * SignOf(mesh, CurElem, j) * A[i][j]
               /\ mat' = Mat_add_values(mat, fl)
               /\ element_mat' = fl.block
               /\ ei' = ei + 1]_vars

\* The block of the last element has been flushed: two local dofs of
\* opposite sign have a non-zero coupling and the matrix already holds the
\* block of the element before.
C23_Witness ==
  /\ op = "jacobian" /\ pc \in {"merge", "done"}
  /\ \E i, j \in LocalDofs :
       /\ SignOf(mesh, NumElements - 1, i) * SignOf(mesh, NumElements - 1, j) = -1
       /\ ExpectedMat(NumElements - 1, num_quadrature_points)[i][j] # 0
  /\ \E c \in GlobalDofs : mat[NumVerts][c] # 0

\* --------------------------------------------------------------- C24
\* The derivative along pref at the physical state of the reference state
\* sref0, pulled back: what Jpref is when the functor is bound to that state.
JprefAt(sref0) ==
  LET detJ == MatDet(test.J)
      s == transformN(detJ, test.J, sref0)
      p == transformN(detJ, test.J, test.pref)
  IN rtransformN(detJ, test.J, JacVecProductN(test.pde, detJ, test.data, s, p))

\* C24: in TestPDEImplementation the derivative operator is bound to the
\* physical state at which the baseline coefficient cref0 was evaluated, the
\* transform of the unperturbed reference state, not the state perturbed by
\* dh * p; the Jpref it reports is the derivative at that state.
C24_BoundToBaselineState ==
  /\ test.pc = "coef" =>
       TestFunctor(test).s = transformN(MatDet(test.J), test.J, TestSref0)
  /\ test.pc \in {"jvp", "done"} => test.Jpref = JprefAt(TestSref0)

\* --------------------------------------------------------------- C25
\* add_residual alone: the calls around it and its element loop, which runs
\* to its end once called (a sequential loop with nothing to wait for).
InitResidual == Init /\ op = "residual"

NextResidual ==
  \/ InitValues
  \/ InitZeroValues
  \/ CallAssembly
  \/ Residual_Gather
  \/ Residual_Quad
  \/ Residual_Scatter
  \/ AddValues_Step
  \/ AddValues_Return

SpecResidual == InitResidual /\ [][NextResidual]_vars /\ WF_vars(NextResidual)

\* The events of element e in the order the claim gives them: the weak form
\* at the points 0 .. num_quadrature_points - 1, then one scatter-add.
ElemEvents(e) ==
  [n \in 1..(num_quadrature_points + 1) |->
     IF n <= num_quadrature_points THEN <<"weak", e, n - 1>>
     ELSE <<"scatter", e, num_quadrature_points>>]

\* The events of the elements 0 .. n - 1 in ascending order.
RECURSIVE EventsUpTo(_)
EventsUpTo(n) == IF n = 0 THEN <<>> ELSE EventsUpTo(n - 1) \o ElemEvents(n - 1)

WeakCalls == Cardinality({n \in DOMAIN log : log[n][1] = "weak"})

\* What has happened so far is the beginning of the claimed sequence, and it
\* agrees with the loop indices.
LoopInOrder ==
  /\ Len(log) <= Len(EventsUpTo(NumElements))
  /\ log = SubSeq(EventsUpTo(NumElements), 1, Len(log))
  /\ pc \in {"gather", "quad", "scatter"} =>
       Len(log) = ei * (num_quadrature_points + 1) + (IF pc = "gather" THEN 0 ELSE qj)

LoopFinished ==
  /\ pc \in {"merge", "done"}
  /\ log = EventsUpTo(NumElements)
  /\ WeakCalls = NumElements * num_quadrature_points

\* C25: add_residual processes the elements 0 .. num_elements - 1 once each
\* in ascending order and terminates; all weak-form evaluations of an element
\* come before that element's single scatter-add, the scatter-add of element
\* e never precedes that of element e - 1, and the weak form is evaluated
\* num_elements * num_quadrature_points times in all.
C25_ElementsOnceInOrder == []LoopInOrder /\ <>[]LoopFinished

\* The loop is inside its last element, after the scatter-add of the element
\* before it and with one point of this element evaluated.
C25_Witness ==
  /\ op = "residual" /\ pc = "quad" /\ ei = NumElements - 1 /\ qj = 1
  /\ \E n \in DOMAIN log : log[n] = <<"scatter", NumElements - 2, num_quadrature_points>>
  /\ log[Len(log)] = <<"weak", NumElements - 1, 0>>

\* --------------------------------------------------------------- C26
\* C26: a Serial FEDof is a private copy. It is all zero right after its
\* construction; constructing it or writing its entries changes no slot of
\* the global array; a call that changes the global array leaves the FEDof
\* that was gathered before as it was; and the global array changes only in
\* add_element_values or set_element_values.
C26_FEDofIsPrivateCopy ==
  [][/\ last'.op = "new" => (sol_dof' = Zero(ndof) /\ global_U' = global_U)
     /\ last'.op = "write" => global_U' = global_U
     /\ global_U' # global_U => (last'.op \in {"add", "set"} /\ sol_dof' = sol_dof)
     /\ last'.op = "get" => global_U' = global_U]_vars

\* A gathered FEDof that is not zero was scatter-added: the global array has
\* changed and the FEDof still holds the gathered values.
C26_Witness ==
  /\ last.op = "add" /\ last.prev.op = "get"
  /\ global_U # last.vec
  /\ sol_dof = last.dof
  /\ \E d \in LocalDofs : sol_dof[d] # 0

\* --------------------------------------------------------------- C27
SlabViews == {"sol", "res", "x", "y"}

\* The slab with the rows of the elements other than elem replaced by those
\* of other.
OtherRows(array, elem, other) ==
  [e \in Elems |-> IF e = elem THEN array[e] ELSE other[e]]

\* C27: in the Parallel strategy the compute step of element e (its gather,
\* its quadrature points, its projection through the FEDof) leaves the slab
\* rows of every other element and the global arrays unchanged, and the row
\* it writes does not depend on the rows of other elements; the global
\* arrays are written in add_values only.
C27_ComputeTouchesOwnRowOnly ==
  [][evtype = "Parallel" =>
       /\ pc \in {"gather", "quad", "scatter"} =>
            /\ \A v \in SlabViews : \A e \in Elems \ {CurElem} : slab'[v][e] = slab[v][e]
            /\ global_U' = global_U /\ global_x' = global_x
            /\ global_res' = global_res /\ global_y' = global_y
            /\ global_geo' = global_geo /\ global_data' = global_data
       /\ (pc = "scatter" /\ op \in {"residual", "jvp"}) =>
            \A other \in {ZeroSlab, StaleSlab} :
              ScatterElem(evtype, mesh, CurElem, IF op = "jvp" THEN global_y ELSE global_res,
                          OtherRows(slab[OutView], CurElem, other), q.res).array[CurElem]
                = slab'[OutView][CurElem]
       /\ (global_res' # global_res \/ global_y' # global_y) => pc = "merge"]_vars

\* A Parallel residual run after the compute step of the last element: its
\* row of the output slab is written and differs from the row of element 0.
C27_Witness ==
  /\ evtype = "Parallel" /\ op = "residual" /\ pc = "merge"
  /\ \E d \in LocalDofs : slab.res[NumElements - 1][d] # 0
  /\ slab.res[NumElements - 1] # slab.res[0]
  /\ global_res = init0.res
====
